---- MODULE Spec2Model ----
(***************************************************************************)
(* Fantasy Idle Adventure (script.js): the economy of the game.  The game  *)
(* state object, the cost functions, the purchase handlers, the prestige   *)
(* reset, the artifact effects and the save/load functions.                *)
(*                                                                         *)
(* Numbers.  JavaScript numbers that carry fractions (gold, the yields,    *)
(* the per-unit rates, the multipliers) are fixed-point integers in units  *)
(* of 1/Scale; a product of two of them is rounded down to that unit.      *)
(* Counts, levels, costs and prestige points are plain integers.           *)
(***************************************************************************)
EXTENDS Integers, Sequences, FiniteSets, TLC

\* One unit of a fractional JavaScript number: 1.0 is Scale.
Scale == 1000

ToFix(n) == n * Scale

\* a * b of two fixed-point numbers, rounded down to 1/Scale.
FMul(a, b) == (a * b) \div Scale

\* floor(a * b / d) for a >= 0, b >= 0 without forming a * b.
MulDiv(a, b, d) == (a \div d) * b + ((a % d) * b) \div d

(***************************************************************************)
(* BALANCE_DATA.  costIncreaseRate is in hundredths, costExponent in       *)
(* thousandths, goldPerSecond / goldPerClick / effectMultiplier /          *)
(* bonusMultiplierPerPoint in 1/Scale.                                     *)
(***************************************************************************)
BALANCE_DATA ==
  [ general |-> [ clicksPerMinute |-> 60, baseGoldPerClick |-> 1000 ],
    jobs |->
      [ miners   |-> [ baseCost |-> 10,  costIncreaseRate |-> 15, costExponent |-> 900,
                       goldPerSecond |-> 1000, goldPerClick |-> 0 ],
        soldiers |-> [ baseCost |-> 50,  costIncreaseRate |-> 17, costExponent |-> 950,
                       goldPerSecond |-> 5000, goldPerClick |-> 0 ],
        wizards  |-> [ baseCost |-> 100, costIncreaseRate |-> 20, costExponent |-> 1050,
                       goldPerSecond |-> 0, goldPerClick |-> 2000 ] ],
    upgrades |->
      ( "miner-sharp-pickaxe" :>
            [ baseCost |-> 50,  costIncreaseRate |-> 25, costExponent |-> 1100,
              effectMultiplier |-> 100, job |-> "miners" ]
        @@ "soldier-stronger-swords" :>
            [ baseCost |-> 150, costIncreaseRate |-> 28, costExponent |-> 1150,
              effectMultiplier |-> 100, job |-> "soldiers" ]
        @@ "wizard-better-focus" :>
            [ baseCost |-> 250, costIncreaseRate |-> 30, costExponent |-> 1200,
              effectMultiplier |-> 100, job |-> "wizards" ] ),
    prestige |-> [ unlockThreshold |-> 1000000, pointsFormulaDivisor |-> 1000000,
                   bonusMultiplierPerPoint |-> 20 ] ]

balanceData == BALANCE_DATA

JobTypes == DOMAIN balanceData.jobs
UpgradeIds == DOMAIN balanceData.upgrades

(***************************************************************************)
(* Math.pow(owned, costExponent), in units of 1/PowScale, rounded down,    *)
(* for owned in 0 .. 40 and the six configured exponents.  With these      *)
(* values the cost below equals the cost the double arithmetic of the      *)
(* source gives for every configured item and every owned in 0 .. 40, but  *)
(* for wizard-better-focus at level 32 (5049 in doubles, 5050 here), a     *)
(* level whose price is beyond the balances explored.                      *)
(***************************************************************************)
PowScale == 10000

PowTable ==
  ( 900 :> <<
         0, 10000, 18660, 26878, 34822, 42566, 50157, 57621, 64980, 72246, 79432,
         86547, 93597, 100588, 107526, 114414, 121257, 128057, 134817, 141539,
         148226, 154880, 161502, 168095, 174658, 181194, 187705, 194190, 200651,
         207089, 213505, 219900, 226274, 232628, 238963, 245279, 251577, 257858,
         264122, 270369, 276601 >>
    @@ 950 :> <<
         0, 10000, 19318, 28396, 37321, 46134, 54858, 63510, 72100, 80636, 89125,
         97571, 105979, 114352, 122693, 131004, 139288, 147545, 155778, 163989,
         172178, 180346, 188495, 196626, 204739, 212834, 220914, 228978, 237028,
         245063, 253084, 261092, 269086, 277069, 285039, 292997, 300945, 308881,
         316806, 324721, 332626 >>
    @@ 1050 :> <<
         0, 10000, 20705, 31694, 42870, 54189, 65623, 77153, 88765, 100451, 112201,
         124011, 135875, 147788, 159747, 171749, 183791, 195871, 207986, 220136,
         232317, 244528, 256769, 269038, 281333, 293654, 306000, 318369, 330762,
         343176, 355612, 368069, 380546, 393042, 405557, 418091, 430643, 443212,
         455798, 468401, 481019 >>
    @@ 1100 :> <<
         0, 10000, 21435, 33483, 45947, 58730, 71773, 85036, 98491, 112115, 125892,
         139807, 153850, 168010, 182280, 196652, 211121, 225680, 240325, 255052,
         269856, 284735, 299684, 314702, 329786, 344932, 360139, 375405, 390727,
         406104, 421534, 437016, 452548, 468128, 483756, 499430, 515148, 530911,
         546716, 562562, 578450 >>
    @@ 1150 :> <<
         0, 10000, 22191, 35374, 49245, 63652, 78500, 93726, 109283, 125135, 141253,
         157616, 174204, 191000, 207992, 225167, 242514, 260025, 277692, 295506,
         313461, 331552, 349772, 368117, 386583, 405164, 423856, 442658, 461563,
         480571, 499677, 518878, 538173, 557559, 577033, 596593, 616237, 635963,
         655769, 675653, 695615 >>
    @@ 1200 :> <<
         0, 10000, 22973, 37371, 52780, 68986, 85858, 103304, 121257, 139666,
         158489, 177693, 197250, 217136, 237330, 257815, 278576, 299597, 320868,
         342376, 364112, 386067, 408232, 430599, 453162, 475913, 498847, 521959,
         545242, 568692, 592305, 616075, 640000, 664074, 688295, 712658, 737162,
         761801, 786575, 811479, 836511 >> )

MathPow(owned, exponent) == PowTable[exponent][owned + 1]

\* Mutant of RawCost: every unit is free.
RawCost_Free(data, owned) == 0

\* Mutant of RawCost: the growth term is subtracted.
RawCost_Decreasing(data, owned) ==
  MulDiv(100 * PowScale - data.costIncreaseRate * MathPow(owned, data.costExponent),
         data.baseCost, 100 * PowScale)

\* Math.floor(data.baseCost * (1 + data.costIncreaseRate * Math.pow(owned, data.costExponent)))
RawCost(data, owned) ==
  MulDiv(100 * PowScale + data.costIncreaseRate * MathPow(owned, data.costExponent),
         data.baseCost, 100 * PowScale)

\* Mutant of ReduceCost: the discount is floored instead of the discounted cost.
ReduceCost_FlooredDiscount(cost, jobCostReduction) ==
  cost - (cost * jobCostReduction) \div Scale

\* Math.floor(cost * (1 - jobCostReduction)), jobCostReduction in 1/Scale.
ReduceCost(cost, jobCostReduction) == (cost * (Scale - jobCostReduction)) \div Scale

\* Mutant of ReductionApplies: the reduction applies to upgrades as well.
ReductionApplies_AllItems(gs, type) == gs.artifactEffects.jobCostReduction > 0

\* The artifact reduction applies when the type is a job and the reduction is positive.
ReductionApplies(gs, type) ==
  type \in JobTypes /\ gs.artifactEffects.jobCostReduction > 0

\* calculateNextCost(type, owned), reading gameState = gs.
calculateNextCost(gs, type, owned) ==
  IF type \in JobTypes
    THEN LET cost == RawCost(balanceData.jobs[type], owned)
         IN  IF ReductionApplies(gs, type)
               THEN ReduceCost(cost, gs.artifactEffects.jobCostReduction)
               ELSE cost
    ELSE IF type \in UpgradeIds
      THEN LET cost == RawCost(balanceData.upgrades[type], owned)
           IN  IF ReductionApplies(gs, type)
                 THEN ReduceCost(cost, gs.artifactEffects.jobCostReduction)
                 ELSE cost
      ELSE 0

\* A purchase quantity: button.dataset.quantity parsed, a number or the string 'max'.
Qty(n) == [ max |-> FALSE, n |-> n ]
QMax == [ max |-> TRUE, n |-> 0 ]
IsMax(quantity) == quantity.max

\* Mutant of LoopCond: a unit that takes the whole balance is not bought.
LoopCond_Strict(gs, totalCost, nextCost) == gs.gold > ToFix(totalCost + nextCost)

\* The condition of the 'max' while loop: gameState.gold >= totalCost + nextCost.
LoopCond(gs, totalCost, nextCost) == gs.gold >= ToFix(totalCost + nextCost)

\* The 'max' while loop, from its loop variables; the values at loop exit.
RECURSIVE MaxLoop(_, _, _, _, _)
MaxLoop(gs, type, totalCost, maxBuyable, currentOwned) ==
  LET nextCost == calculateNextCost(gs, type, currentOwned)
  IN  IF LoopCond(gs, totalCost, nextCost)
        THEN MaxLoop(gs, type, totalCost + nextCost, maxBuyable + 1, currentOwned + 1)
        ELSE [ totalCost |-> totalCost, maxBuyable |-> maxBuyable ]

\* Mutant of ForLoop: the bound is inclusive.
RECURSIVE ForLoop_Inclusive(_, _, _, _, _)
ForLoop_Inclusive(gs, type, owned, quantity, i) ==
  IF i <= quantity
    THEN calculateNextCost(gs, type, owned + i)
           + ForLoop_Inclusive(gs, type, owned, quantity, i + 1)
    ELSE 0

\* The for loop of calculateBulkCost: the sum of calculateNextCost(type, owned + i), i < quantity.
RECURSIVE ForLoop(_, _, _, _, _)
ForLoop(gs, type, owned, quantity, i) ==
  IF i < quantity
    THEN calculateNextCost(gs, type, owned + i) + ForLoop(gs, type, owned, quantity, i + 1)
    ELSE 0

\* Mutant of calculateBulkCost: 'max' charges every unit at the price of the first one.
calculateBulkCost_FlatMax(gs, type, owned, quantity) ==
  IF IsMax(quantity)
    THEN MaxLoop(gs, type, 0, 0, owned).maxBuyable * calculateNextCost(gs, type, owned)
    ELSE ForLoop(gs, type, owned, quantity.n, 0)

\* calculateBulkCost(type, baseCost, increaseRate, exponent, owned, quantity); the
\* three middle parameters are not read by the source.
calculateBulkCost(gs, type, owned, quantity) ==
  IF IsMax(quantity)
    THEN MaxLoop(gs, type, 0, 0, owned).totalCost
    ELSE ForLoop(gs, type, owned, quantity.n, 0)

(***************************************************************************)
(* The game state object and the artifacts.                                *)
(***************************************************************************)
\* let gameState = {...}: the object literal.  lastSaved = 0 stands for the property
\* not being set yet.
DefaultGameState ==
  [ gold |-> 0,
    goldPerClick |-> 1000,
    goldPerSec |-> 0,
    minerJobs |-> 0,
    minerJobCost |-> 10,
    minerJobGPS |-> 1000,
    soldierJobs |-> 0,
    soldierJobCost |-> 50,
    soldierJobGPS |-> 5000,
    wizardJobs |-> 0,
    wizardJobCost |-> 100,
    wizardJobGPC |-> 2000,
    upgrades |-> ( "miner-sharp-pickaxe" :> [ level |-> 0, cost |-> 50 ]
                   @@ "soldier-stronger-swords" :> [ level |-> 0, cost |-> 150 ]
                   @@ "wizard-better-focus" :> [ level |-> 0, cost |-> 250 ] ),
    useScientificNotation |-> FALSE,
    prestigePoints |-> 0,
    prestigeBonusMultiplier |-> 1000,
    lifetimeGold |-> 0,
    totalPrestiges |-> 0,
    artifacts |-> [ unlockedIds |-> <<>> ],
    artifactEffects |->
      [ goldMultiplier |-> 1000,
        clickMultiplier |-> 1000,
        passiveMultiplier |-> 1000,
        jobCostReduction |-> 0,
        startingResources |-> [ gold |-> 0, miners |-> 0, soldiers |-> 0, wizards |-> 0 ] ],
    lastSaved |-> 0 ]

\* jobTypeBase + 'Jobs' and jobTypeBase + 'JobCost' for the three job types.
JobsField == [ miners |-> "minerJobs", soldiers |-> "soldierJobs", wizards |-> "wizardJobs" ]
JobCostField ==
  [ miners |-> "minerJobCost", soldiers |-> "soldierJobCost", wizards |-> "wizardJobCost" ]

\* The per-unit rate field an upgrade multiplies, by the upgrade's job.
RateField == [ miners |-> "minerJobGPS", soldiers |-> "soldierJobGPS", wizards |-> "wizardJobGPC" ]

\* ARTIFACTS in declaration order (the order of Object.values), with unlockCondition.prestiges.
ARTIFACTS ==
  << [ id |-> "ancient-coin", prestiges |-> 1 ],
     [ id |-> "mystic-pickaxe", prestiges |-> 2 ],
     [ id |-> "lucky-clover", prestiges |-> 3 ],
     [ id |-> "heroes-medallion", prestiges |-> 4 ],
     [ id |-> "ancient-scroll", prestiges |-> 5 ],
     [ id |-> "mercantile-emblem", prestiges |-> 6 ],
     [ id |-> "bottomless-pouch", prestiges |-> 7 ],
     [ id |-> "midas-touch", prestiges |-> 8 ],
     [ id |-> "philosophers-stone", prestiges |-> 10 ] >>

ArtifactIds == { ARTIFACTS[i].id : i \in DOMAIN ARTIFACTS }

\* ARTIFACTS[artifactId].applyEffect(gameState).
applyEffect(artifactId, gs) ==
  CASE artifactId = "ancient-coin" ->
         [gs EXCEPT !.artifactEffects.goldMultiplier = FMul(@, 1200)]
    [] artifactId = "mystic-pickaxe" ->
         [gs EXCEPT !.minerJobGPS = FMul(@, 1350)]
    [] artifactId = "lucky-clover" ->
         [gs EXCEPT !.artifactEffects.clickMultiplier = FMul(@, 1250)]
    [] artifactId = "heroes-medallion" ->
         [gs EXCEPT !.soldierJobGPS = FMul(@, 1400)]
    [] artifactId = "ancient-scroll" ->
         [gs EXCEPT !.wizardJobGPC = FMul(@, 1350)]
    [] artifactId = "mercantile-emblem" ->
         [gs EXCEPT !.artifactEffects.jobCostReduction = 150]
    [] artifactId = "bottomless-pouch" ->
         [gs EXCEPT !.artifactEffects.startingResources.gold = ToFix(100)]
    [] artifactId = "midas-touch" ->
         [gs EXCEPT !.artifactEffects.goldMultiplier = FMul(@, 1500)]
    [] artifactId = "philosophers-stone" ->
         [gs EXCEPT !.artifactEffects.startingResources.miners = 3,
                    !.artifactEffects.startingResources.soldiers = 3,
                    !.artifactEffects.startingResources.wizards = 3,
                    !.artifactEffects.goldMultiplier = FMul(@, 1250)]
    [] OTHER -> gs

\* recalculateGoldRates().
recalculateGoldRates(gs) ==
  LET baseGoldPerClick == balanceData.general.baseGoldPerClick
      wizardContribution == gs.wizardJobGPC * gs.wizardJobs
      minerContribution == gs.minerJobGPS * gs.minerJobs
      soldierContribution == gs.soldierJobGPS * gs.soldierJobs
  IN  [gs EXCEPT
         !.goldPerClick =
            FMul(FMul(FMul(baseGoldPerClick + wizardContribution, gs.prestigeBonusMultiplier),
                      gs.artifactEffects.goldMultiplier),
                 gs.artifactEffects.clickMultiplier),
         !.goldPerSec =
            FMul(FMul(FMul(minerContribution + soldierContribution, gs.prestigeBonusMultiplier),
                      gs.artifactEffects.goldMultiplier),
                 gs.artifactEffects.passiveMultiplier)]

\* The forEach of applyArtifactEffects over unlockedIds, from index i.
RECURSIVE ApplyEach(_, _, _)
ApplyEach(ids, i, gs) ==
  IF i > Len(ids) THEN gs ELSE ApplyEach(ids, i + 1, applyEffect(ids[i], gs))

\* Mutant of applyArtifactEffects: the effects are applied on top of the previous ones.
applyArtifactEffects_Stacked(gs) ==
  recalculateGoldRates(ApplyEach(gs.artifacts.unlockedIds, 1, gs))

\* applyArtifactEffects(); updateJobCostDisplay only writes to the page.
applyArtifactEffects(gs) ==
  LET reset == [gs EXCEPT !.artifactEffects = DefaultGameState.artifactEffects]
  IN  recalculateGoldRates(ApplyEach(reset.artifacts.unlockedIds, 1, reset))

\* Mutant of NewlyUnlocked: an artifact unlocks one prestige late.
RECURSIVE NewlyUnlocked_Late(_, _, _)
NewlyUnlocked_Late(unlockedIds, prestigeCount, i) ==
  IF i > Len(ARTIFACTS) THEN <<>>
  ELSE IF /\ ARTIFACTS[i].prestiges < prestigeCount
          /\ \A j \in DOMAIN unlockedIds : unlockedIds[j] # ARTIFACTS[i].id
         THEN <<ARTIFACTS[i].id>> \o NewlyUnlocked_Late(unlockedIds, prestigeCount, i + 1)
         ELSE NewlyUnlocked_Late(unlockedIds, prestigeCount, i + 1)

\* checkArtifactUnlocks(prestigeCount): the artifacts pushed, in declaration order.
RECURSIVE NewlyUnlocked(_, _, _)
NewlyUnlocked(unlockedIds, prestigeCount, i) ==
  IF i > Len(ARTIFACTS) THEN <<>>
  ELSE IF /\ ARTIFACTS[i].prestiges <= prestigeCount
          /\ \A j \in DOMAIN unlockedIds : unlockedIds[j] # ARTIFACTS[i].id
         THEN <<ARTIFACTS[i].id>> \o NewlyUnlocked(unlockedIds, prestigeCount, i + 1)
         ELSE NewlyUnlocked(unlockedIds, prestigeCount, i + 1)

\* Mutant of checkArtifactUnlocks: the list is replaced by the artifacts just unlocked.
checkArtifactUnlocks_KeepsOnlyNew(gs, prestigeCount) ==
  [gs EXCEPT !.artifacts.unlockedIds = NewlyUnlocked(@, prestigeCount, 1)]

checkArtifactUnlocks(gs, prestigeCount) ==
  [gs EXCEPT !.artifacts.unlockedIds =
     @ \o NewlyUnlocked(gs.artifacts.unlockedIds, prestigeCount, 1)]

(***************************************************************************)
(* Purchases.                                                              *)
(***************************************************************************)
\* Mutant of NumToBuy: the 'max' count is one more than the units the total pays for.
NumToBuy_OneMore(gs, type, owned, quantity) ==
  IF IsMax(quantity) THEN MaxLoop(gs, type, 0, 0, owned).maxBuyable + 1 ELSE quantity.n

\* numToBuy of buyJob / buyUpgrade: the count of the 'max' loop, or the quantity.
NumToBuy(gs, type, owned, quantity) ==
  IF IsMax(quantity) THEN MaxLoop(gs, type, 0, 0, owned).maxBuyable ELSE quantity.n

\* Mutant of CanBuyJob: the balance is not compared with the total cost.
CanBuyJob_NoGoldCheck(gs, totalCost, numToBuy) == numToBuy > 0

\* if (gameState.gold >= totalCost && numToBuy > 0) of buyJob.
CanBuyJob(gs, totalCost, numToBuy) == gs.gold >= ToFix(totalCost) /\ numToBuy > 0

\* The yield update of buyJob: wizards add to goldPerClick, the others add to
\* goldPerSec and set their per-unit rate to the configured one.
BuyJobRates(gs, jobType, numToBuy) ==
  LET jobData == balanceData.jobs[jobType]
  IN  IF jobType = "wizards"
        THEN [gs EXCEPT !.goldPerClick = @ + numToBuy * jobData.goldPerClick]
        ELSE LET gpsPerUnit == jobData.goldPerSecond
                 added == [gs EXCEPT !.goldPerSec = @ + numToBuy * gpsPerUnit]
             IN  IF jobType = "miners" THEN [added EXCEPT !.minerJobGPS = gpsPerUnit]
                 ELSE IF jobType = "soldiers" THEN [added EXCEPT !.soldierJobGPS = gpsPerUnit]
                 ELSE added

\* Mutant of BuyJobApply: the price is also taken from lifetimeGold.
BuyJobApply_SpendsLifetime(gs, jobType, numToBuy, totalCost) ==
  LET paid == [gs EXCEPT !.gold = @ - ToFix(totalCost),
                         !.lifetimeGold = @ - ToFix(totalCost),
                         ![JobsField[jobType]] = @ + numToBuy]
      rated == BuyJobRates(paid, jobType, numToBuy)
  IN  [rated EXCEPT ![JobCostField[jobType]] =
         calculateNextCost(rated, jobType, rated[JobsField[jobType]])]

\* The body of the successful branch of buyJob, before updateUI() and saveGame().
BuyJobApply(gs, jobType, numToBuy, totalCost) ==
  LET paid == [gs EXCEPT !.gold = @ - ToFix(totalCost),
                         ![JobsField[jobType]] = @ + numToBuy]
      rated == BuyJobRates(paid, jobType, numToBuy)
  IN  [rated EXCEPT ![JobCostField[jobType]] =
         calculateNextCost(rated, jobType, rated[JobsField[jobType]])]

\* buyJob(jobType, quantity) up to its saveGame(): whether it bought, and the state.
buyJob(gs, jobType, quantity) ==
  IF jobType \notin JobTypes
    THEN [ bought |-> FALSE, numToBuy |-> 0, totalCost |-> 0, state |-> gs ]
    ELSE LET owned == gs[JobsField[jobType]]
             numToBuy == NumToBuy(gs, jobType, owned, quantity)
             totalCost == calculateBulkCost(gs, jobType, owned, quantity)
         IN  IF CanBuyJob(gs, totalCost, numToBuy)
               THEN [ bought |-> TRUE, numToBuy |-> numToBuy, totalCost |-> totalCost,
                      state |-> BuyJobApply(gs, jobType, numToBuy, totalCost) ]
               ELSE [ bought |-> FALSE, numToBuy |-> numToBuy, totalCost |-> totalCost,
                      state |-> gs ]

\* Mutant of CanBuyUpgrade: the balance is not compared with the total cost.
CanBuyUpgrade_NoGoldCheck(gs, totalCost, numToBuy) == TRUE

\* if (gameState.gold >= totalCost) of buyUpgrade.
CanBuyUpgrade(gs, totalCost, numToBuy) == gs.gold >= ToFix(totalCost)

\* Math.pow(1 + effectMultiplier, numToBuy), in 1/Scale.
RECURSIVE EffectPow(_, _)
EffectPow(effectMultiplier, numToBuy) ==
  IF numToBuy = 0 THEN Scale
  ELSE FMul(EffectPow(effectMultiplier, numToBuy - 1), Scale + effectMultiplier)

\* Mutant of UpgradeFactor: the levels add up instead of compounding.
UpgradeFactor_Linear(upgradeData, numToBuy) == Scale + numToBuy * upgradeData.effectMultiplier

\* Math.pow((1 + upgradeData.effectMultiplier), numToBuy).
UpgradeFactor(upgradeData, numToBuy) == EffectPow(upgradeData.effectMultiplier, numToBuy)

\* The rate and yield update of buyUpgrade for the upgrade's job.
BuyUpgradeRates(gs, upgradeData, numToBuy) ==
  LET factor == UpgradeFactor(upgradeData, numToBuy)
  IN  IF upgradeData.job = "miners"
        THEN LET r == [gs EXCEPT !.minerJobGPS = FMul(@, factor)]
             IN  [r EXCEPT !.goldPerSec =
                    r.minerJobGPS * r.minerJobs + r.soldierJobGPS * r.soldierJobs]
      ELSE IF upgradeData.job = "soldiers"
        THEN LET r == [gs EXCEPT !.soldierJobGPS = FMul(@, factor)]
             IN  [r EXCEPT !.goldPerSec =
                    r.minerJobGPS * r.minerJobs + r.soldierJobGPS * r.soldierJobs]
      ELSE IF upgradeData.job = "wizards"
        THEN LET r == [gs EXCEPT !.wizardJobGPC = FMul(@, factor)]
             IN  [r EXCEPT !.goldPerClick =
                    balanceData.general.baseGoldPerClick + r.wizardJobGPC * r.wizardJobs]
      ELSE gs

\* The body of the successful branch of buyUpgrade, before updateUI() and saveGame().
BuyUpgradeApply(gs, upgradeId, numToBuy, totalCost) ==
  LET paid == [gs EXCEPT !.gold = @ - ToFix(totalCost),
                         !.upgrades[upgradeId].level = @ + numToBuy]
      rated == BuyUpgradeRates(paid, balanceData.upgrades[upgradeId], numToBuy)
  IN  [rated EXCEPT !.upgrades[upgradeId].cost =
         calculateNextCost(rated, upgradeId, rated.upgrades[upgradeId].level)]

\* buyUpgrade(upgradeId, quantity) up to its saveGame().
buyUpgrade(gs, upgradeId, quantity) ==
  IF upgradeId \notin UpgradeIds
    THEN [ bought |-> FALSE, numToBuy |-> 0, totalCost |-> 0, state |-> gs ]
    ELSE LET owned == gs.upgrades[upgradeId].level
             numToBuy == NumToBuy(gs, upgradeId, owned, quantity)
             totalCost == calculateBulkCost(gs, upgradeId, owned, quantity)
         IN  IF CanBuyUpgrade(gs, totalCost, numToBuy)
               THEN [ bought |-> TRUE, numToBuy |-> numToBuy, totalCost |-> totalCost,
                      state |-> BuyUpgradeApply(gs, upgradeId, numToBuy, totalCost) ]
               ELSE [ bought |-> FALSE, numToBuy |-> numToBuy, totalCost |-> totalCost,
                      state |-> gs ]

(***************************************************************************)
(* Prestige.                                                               *)
(***************************************************************************)
\* Math.floor(Math.sqrt(x)) for an integer x >= 0.
FloorSqrt(x) == CHOOSE p \in 0 .. x : p * p <= x /\ (p + 1) * (p + 1) > x

\* Mutant of calculatePrestigePoints: the square root is left out.
calculatePrestigePoints_NoSqrt(gs) ==
  IF gs.lifetimeGold <= 0 THEN 0
  ELSE gs.lifetimeGold \div ToFix(balanceData.prestige.pointsFormulaDivisor)

\* calculatePrestigePoints().
calculatePrestigePoints(gs) ==
  IF gs.lifetimeGold <= 0 THEN 0
  ELSE FloorSqrt(gs.lifetimeGold \div ToFix(balanceData.prestige.pointsFormulaDivisor))

\* Mutant of PrestigeReset: the upgrades are not reset.
PrestigeReset_KeepsUpgrades(gs) ==
  [gs EXCEPT
     !.gold = gs.artifactEffects.startingResources.gold,
     !.minerJobs = gs.artifactEffects.startingResources.miners,
     !.soldierJobs = gs.artifactEffects.startingResources.soldiers,
     !.wizardJobs = gs.artifactEffects.startingResources.wizards,
     !.goldPerClick = balanceData.general.baseGoldPerClick,
     !.goldPerSec = 0,
     !.minerJobCost = balanceData.jobs.miners.baseCost,
     !.soldierJobCost = balanceData.jobs.soldiers.baseCost,
     !.wizardJobCost = balanceData.jobs.wizards.baseCost,
     !.minerJobGPS = balanceData.jobs.miners.goldPerSecond,
     !.soldierJobGPS = balanceData.jobs.soldiers.goldPerSecond,
     !.wizardJobGPC = balanceData.jobs.wizards.goldPerClick,
     !.lifetimeGold = 0]

\* The reset of prestigeGame: the assignments between checkArtifactUnlocks and
\* applyArtifactEffects.  The prestige fields and the artifacts are restored from
\* their backups, so they keep the values they have in gs.
PrestigeReset(gs) ==
  [gs EXCEPT
     !.gold = gs.artifactEffects.startingResources.gold,
     !.minerJobs = gs.artifactEffects.startingResources.miners,
     !.soldierJobs = gs.artifactEffects.startingResources.soldiers,
     !.wizardJobs = gs.artifactEffects.startingResources.wizards,
     !.goldPerClick = balanceData.general.baseGoldPerClick,
     !.goldPerSec = 0,
     !.minerJobCost = balanceData.jobs.miners.baseCost,
     !.soldierJobCost = balanceData.jobs.soldiers.baseCost,
     !.wizardJobCost = balanceData.jobs.wizards.baseCost,
     !.minerJobGPS = balanceData.jobs.miners.goldPerSecond,
     !.soldierJobGPS = balanceData.jobs.soldiers.goldPerSecond,
     !.wizardJobGPC = balanceData.jobs.wizards.goldPerClick,
     !.upgrades = [ u \in UpgradeIds |->
                      [ level |-> 0, cost |-> balanceData.upgrades[u].baseCost ] ],
     !.lifetimeGold = 0]

\* Mutant of PrestigeAllowed: an award of 0 points is accepted.
PrestigeAllowed_AcceptsZero(pointsToGain) == pointsToGain >= 0

\* Mutant of PrestigeAllowed: an award of 1 point is refused.
PrestigeAllowed_NeedsTwo(pointsToGain) == pointsToGain > 1

\* if (pointsToGain > 0) of prestigeGame.
PrestigeAllowed(pointsToGain) == pointsToGain > 0

\* Mutant of PrestigeBonus: the bonus of one point, whatever the points held.
PrestigeBonus_OnePoint(prestigePoints) ==
  Scale + balanceData.prestige.bonusMultiplierPerPoint

\* 1 + (gameState.prestigePoints * balanceData.prestige.bonusMultiplierPerPoint).
PrestigeBonus(prestigePoints) ==
  Scale + prestigePoints * balanceData.prestige.bonusMultiplierPerPoint

\* prestigeGame() up to its saveGame(): whether it prestiged, the points gained, the
\* ids of newArtifacts, and the state.
prestigeGame(gs) ==
  LET pointsToGain == calculatePrestigePoints(gs)
  IN  IF PrestigeAllowed(pointsToGain)
        THEN LET pointed == [gs EXCEPT !.prestigePoints = @ + pointsToGain]
                 counted ==
                   [pointed EXCEPT
                      !.prestigeBonusMultiplier = PrestigeBonus(pointed.prestigePoints),
                      !.totalPrestiges = @ + 1]
                 newArtifacts ==
                   NewlyUnlocked(counted.artifacts.unlockedIds, counted.totalPrestiges, 1)
                 unlocked == checkArtifactUnlocks(counted, counted.totalPrestiges)
             IN  [ prestiged |-> TRUE, pointsToGain |-> pointsToGain,
                   newArtifacts |-> newArtifacts,
                   state |-> recalculateGoldRates(applyArtifactEffects(PrestigeReset(unlocked))) ]
        ELSE [ prestiged |-> FALSE, pointsToGain |-> 0, newArtifacts |-> <<>>, state |-> gs ]

\* const goldGained = gameState.goldPerClick * gameState.prestigeBonusMultiplier and the
\* two additions, of the click handler and of handleCoinClick.
CreditClick(gs) ==
  LET goldGained == FMul(gs.goldPerClick, gs.prestigeBonusMultiplier)
  IN  [gs EXCEPT !.gold = @ + goldGained, !.lifetimeGold = @ + goldGained]

\* Mutant of CreditIdle: the income is not added to lifetimeGold.
CreditIdle_GoldOnly(gs) ==
  LET goldGained == FMul(gs.goldPerSec, gs.prestigeBonusMultiplier)
  IN  [gs EXCEPT !.gold = @ + goldGained]

\* The idle income interval: goldGained = gameState.goldPerSec * prestigeBonusMultiplier.
CreditIdle(gs) ==
  LET goldGained == FMul(gs.goldPerSec, gs.prestigeBonusMultiplier)
  IN  [gs EXCEPT !.gold = @ + goldGained, !.lifetimeGold = @ + goldGained]

(***************************************************************************)
(* The running page.                                                       *)
(***************************************************************************)
VARIABLES
  gameState,       \* the gameState object
  localStorage,    \* the 'fantasyIdleGame' entry: <<>> when absent, else <<payload>>
  sessionStorage,  \* the 'fantasyIdleGame_backup' entry, likewise
  now,             \* new Date().getTime(): one unit per event handled
  lastCall,        \* the handler that ran last, its arguments and what it reported
  call             \* the frame of a cost function call (the 'max' loop runs step by step)

vars == <<gameState, localStorage, sessionStorage, now, lastCall, call>>

\* The events one behaviour handles.
MaxTime == 3

\* The 'max' search is explored for balances up to MaxGold gold.
MaxGold == 420

\* The quantities of the purchase buttons: data-quantity 1, 10 and max.
Quantities == { Qty(1), Qty(10), QMax }

\* What a write to a store does: both succeed, the first setItem throws, the second throws.
SaveOutcomes == { "ok", "primaryThrows", "backupThrows" }

\* A call frame: the function, its arguments, the loop variables of the 'max' search
\* (pc = "loop" while the while loop runs) and the value returned.
Frame(fn, type, owned, quantity, pc, totalCost, maxBuyable, currentOwned, nextCost, result) ==
  [ fn |-> fn, type |-> type, owned |-> owned, quantity |-> quantity, pc |-> pc,
    totalCost |-> totalCost, maxBuyable |-> maxBuyable, currentOwned |-> currentOwned,
    nextCost |-> nextCost, result |-> result ]

NoCall == Frame("none", "", 0, Qty(0), "idle", 0, 0, 0, 0, 0)

Called(op, item, quantity, outcome, numToBuy, totalCost) ==
  [ op |-> op, item |-> item, quantity |-> quantity, outcome |-> outcome,
    numToBuy |-> numToBuy, totalCost |-> totalCost ]

\* k clicks on the gold button of a page that only has the click listener of line 887.
Earn(gs, k) ==
  LET goldGained == FMul(gs.goldPerClick, gs.prestigeBonusMultiplier)
  IN  [gs EXCEPT !.gold = @ + k * goldGained, !.lifetimeGold = @ + k * goldGained]

\* The clicks that bring gold from gs.gold to at least g gold.
ClicksToReach(gs, g) ==
  LET goldGained == FMul(gs.goldPerClick, gs.prestigeBonusMultiplier)
  IN  IF ToFix(g) <= gs.gold THEN 0
      ELSE (ToFix(g) - gs.gold + goldGained - 1) \div goldGained

\* The clicks that bring lifetimeGold from gs.lifetimeGold to at least g gold.
ClicksToLifetime(gs, g) ==
  LET goldGained == FMul(gs.goldPerClick, gs.prestigeBonusMultiplier)
  IN  IF ToFix(g) <= gs.lifetimeGold THEN 0
      ELSE (ToFix(g) - gs.lifetimeGold + goldGained - 1) \div goldGained

\* The state right after the n-th prestige of a game that only clicks and prestiges.
RECURSIVE AfterPrestiges(_)
AfterPrestiges(n) ==
  IF n = 0 THEN DefaultGameState
  ELSE LET s == AfterPrestiges(n - 1)
       IN  prestigeGame(Earn(s, ClicksToLifetime(s, balanceData.prestige.unlockThreshold))).state

\* The games a behaviour starts from: n prestiges, then clicks up to g gold.
StartPrestiges == { 0, 6 }
StartGold == { 0, 9, 71, 400, balanceData.prestige.unlockThreshold }

\* saveGame(): the timestamp is set first, then the two writes; a throwing write skips
\* the rest of the try block.
saveGame(gs, outcome) ==
  /\ gameState' = [gs EXCEPT !.lastSaved = now']
  /\ localStorage' = IF outcome = "primaryThrows" THEN localStorage ELSE <<gameState'>>
  /\ sessionStorage' = IF outcome = "ok" THEN <<gameState'>> ELSE sessionStorage

Init ==
  /\ \E n \in StartPrestiges :
       LET s == AfterPrestiges(n)
       IN  /\ \E g \in StartGold : gameState = Earn(s, ClicksToReach(s, g))
           /\ localStorage = IF n = 0 THEN <<>> ELSE <<s>>
           /\ sessionStorage = IF n = 0 THEN <<>> ELSE <<s>>
  /\ now = 0
  /\ lastCall = Called("none", "", Qty(0), "", 0, 0)
  /\ call = NoCall

Tick == now < MaxTime /\ now' = now + 1

\* clickButton.addEventListener('click', ...) of line 887: credit, updateUI; no save.
ClickButton ==
  /\ Tick
  /\ gameState' = CreditClick(gameState)
  /\ lastCall' = Called("click", "", Qty(0), "", 0, 0)
  /\ UNCHANGED <<localStorage, sessionStorage, call>>

\* handleCoinClick(event): credit, updateUI, saveGame.
HandleCoinClick(outcome) ==
  /\ Tick
  /\ saveGame(CreditClick(gameState), outcome)
  /\ lastCall' = Called("handleCoinClick", "", Qty(0), outcome, 0, 0)
  /\ UNCHANGED call

\* The idle income loop: setInterval(..., 1000).
IdleIncome ==
  /\ Tick
  /\ gameState' = CreditIdle(gameState)
  /\ lastCall' = Called("idle", "", Qty(0), "", 0, 0)
  /\ UNCHANGED <<localStorage, sessionStorage, call>>

\* A '.job-button' click: buyJob(jobType, quantity).
BuyJob(jobType, quantity, outcome) ==
  /\ Tick
  /\ IsMax(quantity) => gameState.gold <= ToFix(MaxGold)
  /\ LET r == buyJob(gameState, jobType, quantity)
     IN  /\ IF r.bought
               THEN saveGame(r.state, outcome)
               ELSE /\ outcome = "ok"
                    /\ UNCHANGED <<gameState, localStorage, sessionStorage>>
         /\ lastCall' = Called("buyJob", jobType, quantity,
                               IF r.bought THEN "bought"
                               ELSE IF jobType \in JobTypes THEN "notEnough"
                               ELSE "invalid",
                               r.numToBuy, r.totalCost)
  /\ UNCHANGED call

\* An '.upgrade-button' click: buyUpgrade(upgradeId, quantity).
BuyUpgrade(upgradeId, quantity, outcome) ==
  /\ Tick
  /\ IsMax(quantity) => gameState.gold <= ToFix(MaxGold)
  /\ LET r == buyUpgrade(gameState, upgradeId, quantity)
     IN  /\ IF r.bought
               THEN saveGame(r.state, outcome)
               ELSE /\ outcome = "ok"
                    /\ UNCHANGED <<gameState, localStorage, sessionStorage>>
         /\ lastCall' = Called("buyUpgrade", upgradeId, quantity,
                               IF r.bought THEN "bought"
                               ELSE IF upgradeId \in UpgradeIds THEN "notEnough"
                               ELSE "invalid",
                               r.numToBuy, r.totalCost)
  /\ UNCHANGED call

\* The prestige button: prestigeGame().
PrestigeGame(outcome) ==
  /\ Tick
  /\ LET r == prestigeGame(gameState)
     IN  /\ IF r.prestiged
               THEN saveGame(r.state, outcome)
               ELSE /\ outcome = "ok"
                    /\ UNCHANGED <<gameState, localStorage, sessionStorage>>
         /\ lastCall' = Called("prestigeGame", "", Qty(0),
                               IF r.prestiged THEN "prestiged" ELSE "notEnough",
                               r.pointsToGain, 0)
  /\ UNCHANGED call

\* The save interval, the visibilitychange listener and the manual save button.
AutoSave(outcome) ==
  /\ Tick
  /\ saveGame(gameState, outcome)
  /\ lastCall' = Called("saveGame", "", Qty(0), outcome, 0, 0)
  /\ UNCHANGED call

Next ==
  \/ ClickButton
  \/ HandleCoinClick("ok")
  \/ IdleIncome
  \/ \E jobType \in JobTypes, quantity \in Quantities : BuyJob(jobType, quantity, "ok")
  \/ \E upgradeId \in UpgradeIds, quantity \in Quantities :
       BuyUpgrade(upgradeId, quantity, "ok")
  \/ PrestigeGame("ok")
  \/ AutoSave("ok")

Spec == Init /\ [][Next]_vars

(***************************************************************************)
(* Prestige cycles: a game after n prestiges, at the start of its cycle,   *)
(* one click short of the prestige threshold, or at the threshold; then    *)
(* clicks, idle income, single purchases and the prestige button.          *)
(***************************************************************************)
\* The prestiges done before a behaviour starts.
MaxPrestiges == 9

InitPrestige ==
  /\ \E n \in 0 .. MaxPrestiges :
       LET s == AfterPrestiges(n)
           k == ClicksToLifetime(s, balanceData.prestige.unlockThreshold)
       IN  /\ gameState \in { s, Earn(s, k - 1), Earn(s, k) }
           /\ localStorage = IF n = 0 THEN <<>> ELSE <<s>>
           /\ sessionStorage = IF n = 0 THEN <<>> ELSE <<s>>
  /\ now = 0
  /\ lastCall = Called("none", "", Qty(0), "", 0, 0)
  /\ call = NoCall

NextPrestige ==
  \/ ClickButton
  \/ IdleIncome
  \/ \E jobType \in JobTypes : BuyJob(jobType, Qty(1), "ok")
  \/ \E upgradeId \in UpgradeIds : BuyUpgrade(upgradeId, Qty(1), "ok")
  \/ PrestigeGame("ok")

SpecPrestige == InitPrestige /\ [][NextPrestige]_vars

(***************************************************************************)
(* applyArtifactEffects called on its own, on a game whose unlocked list   *)
(* holds any artifacts in any order, as a loaded save can.                 *)
(***************************************************************************)
\* The longest unlocked list a behaviour starts from.
MaxUnlocked == 4

\* The lists of at most n distinct artifact ids.
RECURSIVE UnlockedLists(_)
UnlockedLists(n) ==
  IF n = 0 THEN { <<>> }
  ELSE LET shorter == UnlockedLists(n - 1)
       IN  shorter \cup
           UNION { { Append(ids, id) :
                       id \in ArtifactIds \ { ids[i] : i \in DOMAIN ids } } :
                   ids \in { l \in shorter : Len(l) = n - 1 } }

InitArtifacts ==
  /\ \E ids \in UnlockedLists(MaxUnlocked) :
       gameState = [DefaultGameState EXCEPT !.artifacts.unlockedIds = ids]
  /\ localStorage = <<>>
  /\ sessionStorage = <<>>
  /\ now = 0
  /\ lastCall = Called("none", "", Qty(0), "", 0, 0)
  /\ call = NoCall

\* applyArtifactEffects().
ApplyArtifactEffects ==
  /\ Tick
  /\ gameState' = applyArtifactEffects(gameState)
  /\ lastCall' = Called("applyArtifactEffects", "", Qty(0), "", 0, 0)
  /\ UNCHANGED <<localStorage, sessionStorage, call>>

NextArtifacts == ApplyArtifactEffects

SpecArtifacts == InitArtifacts /\ [][NextArtifacts]_vars

(***************************************************************************)
(* calculatePrestigePoints called on its own, one call per behaviour.      *)
(***************************************************************************)
\* lifetimeGold is drawn in steps of LifetimeStep gold, up to MaxLifetime steps.
LifetimeStep == 10000
MaxLifetime == 210

\* The lifetimeGold values around the first point, in 1/Scale gold.
BoundaryLifetimes ==
  { ToFix(balanceData.prestige.pointsFormulaDivisor) + d : d \in { -1000, -1, 0, 1, 1000 } }

\* A loaded save can carry any number in lifetimeGold, a negative one included.
InitPoints ==
  /\ \E lifetimeGold \in { k * ToFix(LifetimeStep) : k \in -2 .. MaxLifetime }
                           \cup BoundaryLifetimes \cup { -1, 1 } :
       gameState = [DefaultGameState EXCEPT !.lifetimeGold = lifetimeGold]
  /\ localStorage = <<>>
  /\ sessionStorage = <<>>
  /\ now = 0
  /\ lastCall = Called("none", "", Qty(0), "", 0, 0)
  /\ call = NoCall

\* calculatePrestigePoints().
CallPrestigePoints ==
  /\ call.fn = "none"
  /\ call' = Frame("calculatePrestigePoints", "", 0, Qty(0), "done", 0, 0, 0, 0,
                   calculatePrestigePoints(gameState))
  /\ UNCHANGED <<gameState, localStorage, sessionStorage, now, lastCall>>

NextPoints == CallPrestigePoints

SpecPoints == InitPoints /\ [][NextPoints]_vars

(***************************************************************************)
(* The cost functions called on their own: one call per behaviour, from a  *)
(* game after n prestiges and some clicks.  A numeric call returns in one  *)
(* step; the 'max' search of calculateBulkCost / buyJob / buyUpgrade runs  *)
(* one iteration of its while loop per step.                               *)
(***************************************************************************)
\* The owned counts and numeric quantities the calls are given, and the clicks
\* (besides those to StartGold) of the games they read.
MaxOwned == 6
MaxQty == 10
MaxClicks == 30

ItemTypes == JobTypes \cup UpgradeIds

\* The last owned count Math.pow is tabulated for.
LastOwned == Len(PowTable[900]) - 1

InitCost ==
  /\ \E n \in StartPrestiges :
       LET s == AfterPrestiges(n)
       IN  /\ \/ \E k \in 0 .. MaxClicks : gameState = Earn(s, k)
              \/ \E g \in StartGold \ { balanceData.prestige.unlockThreshold } :
                   gameState = Earn(s, ClicksToReach(s, g))
           /\ localStorage = IF n = 0 THEN <<>> ELSE <<s>>
           /\ sessionStorage = IF n = 0 THEN <<>> ELSE <<s>>
  /\ now = 0
  /\ lastCall = Called("none", "", Qty(0), "", 0, 0)
  /\ call = NoCall

\* calculateNextCost(type, owned).
CallNextCost(type, owned) ==
  /\ call.fn = "none"
  /\ call' = Frame("calculateNextCost", type, owned, Qty(1), "done", 0, 0, owned, 0,
                   calculateNextCost(gameState, type, owned))
  /\ UNCHANGED <<gameState, localStorage, sessionStorage, now, lastCall>>

\* calculateBulkCost(type, ..., owned, quantity) with a numeric quantity.
CallBulkCost(type, owned, n) ==
  /\ call.fn = "none"
  /\ call' = Frame("calculateBulkCost", type, owned, Qty(n), "done", 0, 0, owned, 0,
                   calculateBulkCost(gameState, type, owned, Qty(n)))
  /\ UNCHANGED <<gameState, localStorage, sessionStorage, now, lastCall>>

\* The 'max' search up to its while: maxBuyable = 0, totalCost = 0, currentOwned = owned,
\* nextCost = calculateNextCost(type, currentOwned).
CallMax(type, owned) ==
  /\ call.fn = "none"
  /\ call' = Frame("max", type, owned, QMax, "loop", 0, 0, owned,
                   calculateNextCost(gameState, type, owned), 0)
  /\ UNCHANGED <<gameState, localStorage, sessionStorage, now, lastCall>>

\* One evaluation of the while condition: an iteration of the body, or the exit.
MaxStep ==
  /\ call.pc = "loop"
  /\ call.currentOwned < LastOwned
  /\ call' = IF LoopCond(gameState, call.totalCost, call.nextCost)
               THEN [call EXCEPT !.totalCost = @ + call.nextCost,
                                 !.maxBuyable = @ + 1,
                                 !.currentOwned = @ + 1,
                                 !.nextCost = calculateNextCost(gameState, call.type,
                                                                call.currentOwned + 1)]
               ELSE [call EXCEPT !.pc = "done", !.result = call.totalCost]
  /\ UNCHANGED <<gameState, localStorage, sessionStorage, now, lastCall>>

NextCost ==
  \/ \E type \in ItemTypes, owned \in 0 .. MaxOwned : CallNextCost(type, owned)
  \/ \E type \in ItemTypes, owned \in 0 .. MaxOwned, n \in 0 .. MaxQty :
       CallBulkCost(type, owned, n)
  \/ \E type \in ItemTypes, owned \in 0 .. MaxOwned : CallMax(type, owned)
  \/ MaxStep

SpecCost == InitCost /\ [][NextCost]_vars

\* The while loop is not preempted: JavaScript runs a function to completion.
SpecCostFair == InitCost /\ [][NextCost]_vars /\ WF_vars(MaxStep)

(***************************************************************************)
(* Properties of the purchase handlers (checked under Spec).               *)
(***************************************************************************)
\* The sum of the single-unit prices of n units bought one after the other from owned.
RECURSIVE SumOfNextCosts(_, _, _, _)
SumOfNextCosts(gs, type, owned, n) ==
  IF n = 0 THEN 0
  ELSE SumOfNextCosts(gs, type, owned, n - 1) + calculateNextCost(gs, type, owned + n - 1)

\* The step is the handling of one click on a purchase button of kind op.
IsCall(op) == now' = now + 1 /\ lastCall'.op = op

\* A purchase that cannot buy: less gold than the requested quantity costs, or a
\* 'max' whose first unit is not affordable.
CannotBuy(gs, type, owned, quantity) ==
  IF IsMax(quantity)
    THEN gs.gold < ToFix(calculateNextCost(gs, type, owned))
    ELSE gs.gold < ToFix(SumOfNextCosts(gs, type, owned, quantity.n))

\* The fields of the game state but the save timestamp.
Gameplay(gs) == [gs EXCEPT !.lastSaved = 0]

\* C1: a buyJob call that fails (gold below the total cost of the quantity, or 'max'
\* resolving to 0 units) leaves every field of the game state, and both stores,
\* unchanged.
C1_FailedBuyJobChangesNothing ==
  [][ ( /\ IsCall("buyJob")
        /\ CannotBuy(gameState, lastCall'.item, gameState[JobsField[lastCall'.item]],
                     lastCall'.quantity) )
      => UNCHANGED <<gameState, localStorage, sessionStorage>> ]_vars

\* C1 witness: a x1 purchase of a miner was refused with 0 < gold < price.
C1_Witness ==
  /\ lastCall.op = "buyJob" /\ lastCall.item = "miners" /\ lastCall.quantity = Qty(1)
  /\ lastCall.outcome = "notEnough"
  /\ gameState.gold > 0
  /\ gameState.gold < ToFix(calculateNextCost(gameState, "miners", gameState.minerJobs))

\* C2 as claimed: a buyUpgrade call that cannot buy one level (gold below the total
\* cost, or a quantity resolving to 0 levels) leaves every field of the game state
\* unchanged (the save timestamp is left out of the comparison).
C2_FailedBuyUpgradeChangesNothing ==
  [][ ( /\ IsCall("buyUpgrade")
        /\ CannotBuy(gameState, lastCall'.item, gameState.upgrades[lastCall'.item].level,
                     lastCall'.quantity) )
      => Gameplay(gameState') = Gameplay(gameState) ]_vars

\* goldPerSec and goldPerClick recomputed from the counts, the per-unit rates, the
\* prestige multiplier and the artifact multipliers of gs.
YieldPerSec(gs) ==
  FMul(FMul(FMul(gs.minerJobGPS * gs.minerJobs + gs.soldierJobGPS * gs.soldierJobs,
                 gs.prestigeBonusMultiplier),
            gs.artifactEffects.goldMultiplier),
       gs.artifactEffects.passiveMultiplier)

YieldPerClick(gs) ==
  FMul(FMul(FMul(balanceData.general.baseGoldPerClick + gs.wizardJobGPC * gs.wizardJobs,
                 gs.prestigeBonusMultiplier),
            gs.artifactEffects.goldMultiplier),
       gs.artifactEffects.clickMultiplier)

\* C3 as claimed: after any successful purchase goldPerSec and goldPerClick equal the
\* values recomputed from the post-purchase counts, rates and multipliers.
C3_YieldsRecomputedAfterPurchase ==
  ( /\ lastCall.op \in { "buyJob", "buyUpgrade" }
    /\ lastCall.outcome = "bought"
    /\ lastCall.numToBuy > 0 )
  => /\ gameState.goldPerSec = YieldPerSec(gameState)
     /\ gameState.goldPerClick = YieldPerClick(gameState)

\* C4: a buyJob deducts exactly the sum of the per-unit prices of the units it adds,
\* priced from the owned count before the purchase; it adds them to that job only; a
\* numeric quantity n adds n units or none; a successful call adds at least one.
C4_BuyJobPaysSumOfUnitPrices ==
  [][ IsCall("buyJob") =>
        LET jobType == lastCall'.item
            owned == gameState[JobsField[jobType]]
            added == gameState'[JobsField[jobType]] - owned
        IN  /\ added >= 0
            /\ gameState'.gold =
                 gameState.gold - ToFix(SumOfNextCosts(gameState, jobType, owned, added))
            /\ \A other \in JobTypes \ { jobType } :
                 gameState'[JobsField[other]] = gameState[JobsField[other]]
            /\ ~IsMax(lastCall'.quantity) => added \in { 0, lastCall'.quantity.n }
            /\ lastCall'.outcome = "bought" => added > 0 /\ added = lastCall'.numToBuy ]_vars

\* C4 witness: a x10 purchase went through.
C4_Witness ==
  /\ lastCall.op = "buyJob" /\ lastCall.quantity = Qty(10) /\ lastCall.outcome = "bought"
  /\ gameState[JobsField[lastCall.item]] >= 10

\* C5: a buyUpgrade that buys count levels raises the level of that upgrade by count
\* and multiplies the per-unit rate of the upgrade's job, and of no other job, by
\* (1 + effectMultiplier)^count, in one multiplication.
C5_BuyUpgradeCompoundsTargetRate ==
  [][ ( IsCall("buyUpgrade") /\ lastCall'.outcome = "bought" ) =>
        LET upgradeId == lastCall'.item
            upgradeData == balanceData.upgrades[upgradeId]
            count == lastCall'.numToBuy
        IN  /\ gameState'.upgrades[upgradeId].level =
                 gameState.upgrades[upgradeId].level + count
            /\ \A other \in UpgradeIds \ { upgradeId } :
                 gameState'.upgrades[other].level = gameState.upgrades[other].level
            /\ gameState'[RateField[upgradeData.job]] =
                 FMul(gameState[RateField[upgradeData.job]],
                      EffectPow(upgradeData.effectMultiplier, count))
            /\ \A job \in JobTypes \ { upgradeData.job } :
                 gameState'[RateField[job]] = gameState[RateField[job]] ]_vars

\* C5 witness: two or more levels were bought in one call.
C5_Witness ==
  /\ lastCall.op = "buyUpgrade" /\ lastCall.outcome = "bought" /\ lastCall.numToBuy >= 2
  /\ gameState.upgrades[lastCall.item].level >= 2


(***************************************************************************)
(* Properties of the cost functions (checked under SpecCost).              *)
(***************************************************************************)
\* floor(baseCost * (1 + costIncreaseRate * owned^costExponent)), written from the
\* configuration of a job.
UnmodifiedJobCost(jobType, owned) ==
  LET data == balanceData.jobs[jobType]
  IN  data.baseCost
        + (data.baseCost * data.costIncreaseRate * MathPow(owned, data.costExponent))
            \div (100 * PowScale)

\* C6: for every job and owned count, calculateNextCost returns
\* floor(baseCost * (1 + costIncreaseRate * owned^costExponent)), multiplied by
\* (1 - jobCostReduction) and floored again; miners cost 10 at owned 0 and 11 at owned 1;
\* with jobCostReduction = 0.15 the cost is floor(0.85 * the unmodified cost).
C6_NextJobCostFormula ==
  (call.fn = "calculateNextCost" /\ call.type \in JobTypes) =>
    LET unmodified == UnmodifiedJobCost(call.type, call.owned)
        r == gameState.artifactEffects.jobCostReduction
    IN  /\ call.result = (unmodified * (Scale - r)) \div Scale
        /\ (call.type = "miners" /\ r = 0 /\ call.owned = 0) => call.result = 10
        /\ (call.type = "miners" /\ r = 0 /\ call.owned = 1) => call.result = 11
        /\ r = 150 => call.result = (85 * unmodified) \div 100
        /\ r \in { 0, 150 }

\* C6 witness: the price of the second miner under the 15% reduction, floor(0.85 * 11).
C6_Witness ==
  /\ call.fn = "calculateNextCost" /\ call.type = "miners" /\ call.owned = 1
  /\ gameState.artifactEffects.jobCostReduction = 150
  /\ call.result = 9

\* C7: when the 'max' search has returned, its total is the bulk cost of the units it
\* counted, the total is within the gold balance, one more unit is not, and count
\* and total are 0 when the first unit is not affordable.
C7_MaxSearchIsSound ==
  (call.fn = "max" /\ call.pc = "done") =>
    /\ call.result = call.totalCost
    /\ call.totalCost = SumOfNextCosts(gameState, call.type, call.owned, call.maxBuyable)
    /\ ToFix(call.totalCost) <= gameState.gold
    /\ ToFix(SumOfNextCosts(gameState, call.type, call.owned, call.maxBuyable + 1))
         > gameState.gold
    /\ gameState.gold < ToFix(calculateNextCost(gameState, call.type, call.owned))
         => call.maxBuyable = 0 /\ call.totalCost = 0

\* C7 witness: a search that counted at least two units and left gold over.
C7_Witness ==
  /\ call.fn = "max" /\ call.pc = "done"
  /\ call.maxBuyable >= 2
  /\ gameState.gold > ToFix(call.totalCost)

\* C8: the 'max' while loop of every configured job and upgrade, from every owned
\* count and gold balance, reaches its exit.
C8_MaxLoopTerminates == (call.pc = "loop") ~> (call.pc = "done")

\* C8 witness: the search for an upgrade has left its loop after at least one iteration.
C8_Witness ==
  /\ call.fn = "max" /\ call.pc = "done"
  /\ call.type \in UpgradeIds
  /\ call.maxBuyable >= 1

\* C9: calculateBulkCost with a numeric quantity returns the sum of
\* calculateNextCost(type, owned + i), i in [0, quantity), returns 0 for quantity 0, and
\* bulkCost(owned, a + b) = bulkCost(owned, a) + bulkCost(owned + a, b).
C9_BulkCostIsAdditiveSum ==
  call.fn = "calculateBulkCost" =>
    LET n == call.quantity.n
    IN  /\ call.result = SumOfNextCosts(gameState, call.type, call.owned, n)
        /\ n = 0 => call.result = 0
        /\ \A a \in 0 .. n :
             call.result =
               calculateBulkCost(gameState, call.type, call.owned, Qty(a))
                 + calculateBulkCost(gameState, call.type, call.owned + a, Qty(n - a))

\* C9 witness: a bulk cost of three or more units of growing price.
C9_Witness ==
  /\ call.fn = "calculateBulkCost"
  /\ call.quantity.n >= 3
  /\ call.result > call.quantity.n * calculateNextCost(gameState, call.type, call.owned)

\* C10: for every job and owned count the unit at owned + 1 costs at least the unit at
\* owned, with and without the artifact cost reduction.
C10_JobCostIsMonotonic ==
  (call.fn = "calculateNextCost" /\ call.type \in JobTypes) =>
    /\ call.result <= calculateNextCost(gameState, call.type, call.owned + 1)
    /\ \A owned \in call.owned .. LastOwned - 1 :
         calculateNextCost(gameState, call.type, owned)
           <= calculateNextCost(gameState, call.type, owned + 1)

\* C10 witness: a job price under the cost reduction, above the price of the first unit.
C10_Witness ==
  /\ call.fn = "calculateNextCost" /\ call.type \in JobTypes
  /\ gameState.artifactEffects.jobCostReduction > 0
  /\ call.owned >= 1
  /\ call.result > calculateNextCost(gameState, call.type, 0)


(***************************************************************************)
(* Properties of prestige (checked under SpecPrestige and Spec).           *)
(***************************************************************************)
\* C11: a prestigeGame call made when calculatePrestigePoints() is 0 changes no field
\* of the game state, and writes to no store.
C11_PrestigeWithoutPointsChangesNothing ==
  [][ (IsCall("prestigeGame") /\ calculatePrestigePoints(gameState) = 0)
      => UNCHANGED <<gameState, localStorage, sessionStorage>> ]_vars

\* C11 witness: the prestige button was refused one click short of the threshold.
C11_Witness ==
  /\ lastCall.op = "prestigeGame" /\ lastCall.outcome = "notEnough"
  /\ gameState.lifetimeGold > 0
  /\ gameState.totalPrestiges > 0
  /\ calculatePrestigePoints(gameState) = 0

\* canPrestige: lifetimeGold >= unlockThreshold, the test updateUI enables the button by.
CanPrestige(gs) == gs.lifetimeGold >= ToFix(balanceData.prestige.unlockThreshold)

\* C12: prestigeGame awards points and resets progress if and only if lifetimeGold has
\* reached unlockThreshold; below the threshold it changes nothing.
C12_PrestigeIffThresholdReached ==
  [][ IsCall("prestigeGame") =>
        IF CanPrestige(gameState)
          THEN /\ gameState'.prestigePoints > gameState.prestigePoints
               /\ gameState'.totalPrestiges = gameState.totalPrestiges + 1
               /\ gameState'.lifetimeGold = 0
               /\ lastCall'.outcome = "prestiged"
          ELSE /\ UNCHANGED <<gameState, localStorage, sessionStorage>>
               /\ lastCall'.outcome = "notEnough" ]_vars

\* C12 witness: a prestige made with lifetimeGold at the threshold and gold below it.
C12_Witness ==
  /\ lastCall.op = "prestigeGame" /\ lastCall.outcome = "prestiged"
  /\ gameState.totalPrestiges = 1
  /\ gameState.lifetimeGold = 0


\* C13: calculatePrestigePoints returns floor(sqrt(lifetimeGold / pointsFormulaDivisor)),
\* 0 whenever lifetimeGold <= 0, and 1 for a lifetimeGold of 1,000,000.
C13_PrestigePointsFormula ==
  call.fn = "calculatePrestigePoints" =>
    LET lifetimeGold == gameState.lifetimeGold
        quotient == lifetimeGold \div ToFix(balanceData.prestige.pointsFormulaDivisor)
        points == call.result
    IN  /\ lifetimeGold <= 0 => points = 0
        /\ lifetimeGold > 0 =>
             /\ points >= 0
             /\ points * points <= quotient
             /\ quotient < (points + 1) * (points + 1)
        /\ lifetimeGold = ToFix(1000000) => points = 1

\* C13 witness: a lifetimeGold of two divisors or more still gives one point.
C13_Witness ==
  /\ call.fn = "calculatePrestigePoints"
  /\ gameState.lifetimeGold >= 2 * ToFix(balanceData.prestige.pointsFormulaDivisor)
  /\ call.result = 1


\* C14: a successful prestigeGame adds the computed award to prestigePoints and 1 to
\* totalPrestiges, and in every state reached by clicks, idle income, purchases and
\* prestiges prestigeBonusMultiplier = 1 + prestigePoints * bonusMultiplierPerPoint.
C14_PrestigeAwardAndMultiplier ==
  /\ [](gameState.prestigeBonusMultiplier
          = Scale + gameState.prestigePoints * balanceData.prestige.bonusMultiplierPerPoint)
  /\ [][ (IsCall("prestigeGame") /\ lastCall'.outcome = "prestiged") =>
           /\ calculatePrestigePoints(gameState) > 0
           /\ gameState'.prestigePoints
                = gameState.prestigePoints + calculatePrestigePoints(gameState)
           /\ gameState'.totalPrestiges = gameState.totalPrestiges + 1 ]_vars

\* C14 witness: the tenth prestige has been made, after a purchase in its cycle.
C14_Witness ==
  /\ lastCall.op = "prestigeGame" /\ lastCall.outcome = "prestiged"
  /\ gameState.totalPrestiges = 10
  /\ gameState.prestigePoints = 10
  /\ now >= 2


\* The ids of a list of unlocked artifacts, as a set.
IdSet(unlockedIds) == { unlockedIds[i] : i \in DOMAIN unlockedIds }

\* C15: across prestigeGame calls, successful or not, interleaved with clicks, idle
\* income, saves and purchases, prestigePoints, prestigeBonusMultiplier and
\* totalPrestiges never decrease and no artifact id leaves the unlocked list.
C15_PrestigeNeverRegresses ==
  [][ /\ gameState'.prestigePoints >= gameState.prestigePoints
      /\ gameState'.prestigeBonusMultiplier >= gameState.prestigeBonusMultiplier
      /\ gameState'.totalPrestiges >= gameState.totalPrestiges
      /\ IdSet(gameState.artifacts.unlockedIds)
           \subseteq IdSet(gameState'.artifacts.unlockedIds) ]_vars

\* C15 witness: the seventh prestige has been made and has added a seventh artifact.
C15_Witness ==
  /\ lastCall.op = "prestigeGame" /\ lastCall.outcome = "prestiged"
  /\ gameState.totalPrestiges = 7
  /\ Len(gameState.artifacts.unlockedIds) = 7


\* The artifacts whose unlock condition a prestige count meets.
DueArtifacts(prestigeCount) ==
  { ARTIFACTS[i].id : i \in { j \in DOMAIN ARTIFACTS : ARTIFACTS[j].prestiges <= prestigeCount } }

\* C16: after a successful prestige the unlocked set is the previous set plus every
\* artifact whose unlock count is at most the new totalPrestiges; newArtifacts holds
\* exactly the artifacts the call added; no id appears twice in the unlocked list.
C16_ArtifactUnlocks ==
  [][ (IsCall("prestigeGame") /\ lastCall'.outcome = "prestiged") =>
        LET before == IdSet(gameState.artifacts.unlockedIds)
            after == IdSet(gameState'.artifacts.unlockedIds)
            newArtifacts == prestigeGame(gameState).newArtifacts
        IN  /\ after = before \cup DueArtifacts(gameState'.totalPrestiges)
            /\ IdSet(newArtifacts) = after \ before
            /\ Len(newArtifacts) = Cardinality(after \ before)
            /\ Len(gameState'.artifacts.unlockedIds) = Cardinality(after) ]_vars

\* C16 witness: the tenth prestige has unlocked the ninth artifact, the ninth none.
C16_Witness ==
  /\ lastCall.op = "prestigeGame" /\ lastCall.outcome = "prestiged"
  /\ gameState.totalPrestiges = 10
  /\ gameState.artifacts.unlockedIds[9] = "philosophers-stone"


\* The starting gold and job count the unlocked artifacts grant: 100 gold with
\* bottomless-pouch, 3 of each job with philosophers-stone.
StartingGoldBonus(unlockedIds) ==
  IF "bottomless-pouch" \in IdSet(unlockedIds) THEN ToFix(100) ELSE 0

StartingJobsBonus(unlockedIds) ==
  IF "philosophers-stone" \in IdSet(unlockedIds) THEN 3 ELSE 0

\* C17 as claimed: after a successful prestigeGame, gold is the starting gold and each
\* job count the starting count granted by the artifacts unlocked after the prestige.
C17_PrestigeStartsFromArtifactBonus ==
  (lastCall.op = "prestigeGame" /\ lastCall.outcome = "prestiged") =>
    /\ gameState.gold = StartingGoldBonus(gameState.artifacts.unlockedIds)
    /\ gameState.minerJobs = StartingJobsBonus(gameState.artifacts.unlockedIds)
    /\ gameState.soldierJobs = StartingJobsBonus(gameState.artifacts.unlockedIds)
    /\ gameState.wizardJobs = StartingJobsBonus(gameState.artifacts.unlockedIds)


\* C18: after a successful prestigeGame lifetimeGold is 0, every upgrade level is 0,
\* goldPerClick and goldPerSec are the values recomputed from the job counts, the
\* per-unit rates, the prestige multiplier and the artifact multipliers, and the state
\* saved by the call is that state: no partly reset state is seen by a save.
C18_PrestigeResetIsComplete ==
  (lastCall.op = "prestigeGame" /\ lastCall.outcome = "prestiged") =>
    /\ gameState.lifetimeGold = 0
    /\ \A u \in UpgradeIds : gameState.upgrades[u].level = 0
    /\ gameState.goldPerSec = YieldPerSec(gameState)
    /\ gameState.goldPerClick = YieldPerClick(gameState)
    /\ localStorage = <<gameState>>
    /\ sessionStorage = <<gameState>>

\* C18 witness: the ninth prestige has been made; the click yield carries the prestige
\* and artifact multipliers.
C18_Witness ==
  /\ lastCall.op = "prestigeGame" /\ lastCall.outcome = "prestiged"
  /\ gameState.totalPrestiges = 9
  /\ gameState.goldPerClick > 2 * balanceData.general.baseGoldPerClick
  /\ gameState.gold = ToFix(100)


\* The accumulator a set of unlocked artifacts gives, written from the effects of the
\* artifacts: identity values, then each multiplier or grant of an artifact in the set.
AccumulatorOf(ids) ==
  LET Factor(id, m) == IF id \in ids THEN m ELSE Scale
  IN  [ goldMultiplier |->
          FMul(FMul(Factor("ancient-coin", 1200), Factor("midas-touch", 1500)),
               Factor("philosophers-stone", 1250)),
        clickMultiplier |-> Factor("lucky-clover", 1250),
        passiveMultiplier |-> Scale,
        jobCostReduction |-> IF "mercantile-emblem" \in ids THEN 150 ELSE 0,
        startingResources |->
          [ gold |-> IF "bottomless-pouch" \in ids THEN ToFix(100) ELSE 0,
            miners |-> IF "philosophers-stone" \in ids THEN 3 ELSE 0,
            soldiers |-> IF "philosophers-stone" \in ids THEN 3 ELSE 0,
            wizards |-> IF "philosophers-stone" \in ids THEN 3 ELSE 0 ] ]

\* C19: artifactEffects after applyArtifactEffects depends only on the set of unlocked
\* ids: a second application in a row gives the accumulator of the first (rebuilt from
\* identity values, not stacked), and every order of the ids gives the same one.
C19_AccumulatorDependsOnSetOnly ==
  lastCall.op = "applyArtifactEffects" =>
    gameState.artifactEffects = AccumulatorOf(IdSet(gameState.artifacts.unlockedIds))

\* C19 witness: applied twice to the three gold multipliers unlocked in reverse order.
C19_Witness ==
  /\ lastCall.op = "applyArtifactEffects"
  /\ now = 2
  /\ gameState.artifacts.unlockedIds = <<"philosophers-stone", "midas-touch", "ancient-coin">>
  /\ gameState.artifactEffects.goldMultiplier = 2250


(***************************************************************************)
(* Properties of the timers (checked under Spec).                          *)
(***************************************************************************)
\* C20: a passive-income tick adds goldPerSec * prestigeBonusMultiplier to gold and to
\* lifetimeGold, and changes no other field of the game state, nor a store.
C20_IdleTickCreditsGold ==
  [][ IsCall("idle") =>
        LET goldGained == (gameState.goldPerSec * gameState.prestigeBonusMultiplier) \div Scale
        IN  /\ gameState'.gold = gameState.gold + goldGained
            /\ gameState'.lifetimeGold = gameState.lifetimeGold + goldGained
            /\ [gameState' EXCEPT !.gold = 0, !.lifetimeGold = 0]
                 = [gameState EXCEPT !.gold = 0, !.lifetimeGold = 0]
            /\ UNCHANGED <<localStorage, sessionStorage>> ]_vars

\* C20 witness: a tick has paid the income of a miner under a prestige bonus.
C20_Witness ==
  /\ lastCall.op = "idle"
  /\ gameState.goldPerSec > 0
  /\ gameState.prestigeBonusMultiplier > Scale
  /\ gameState.lifetimeGold > 0


(***************************************************************************)
(* Properties of the prestige bonus (checked under SpecPrestige).          *)
(***************************************************************************)
\* The gold a click and a tick credit with 0 prestige points, from the job counts, the
\* per-unit rates and the artifact multipliers of gs.
ClickCreditWithoutPoints(gs) ==
  FMul(FMul(balanceData.general.baseGoldPerClick + gs.wizardJobGPC * gs.wizardJobs,
            gs.artifactEffects.goldMultiplier),
       gs.artifactEffects.clickMultiplier)

TickCreditWithoutPoints(gs) ==
  FMul(FMul(gs.minerJobGPS * gs.minerJobs + gs.soldierJobGPS * gs.soldierJobs,
            gs.artifactEffects.goldMultiplier),
       gs.artifactEffects.passiveMultiplier)

\* C21 as claimed: with p prestige points a click and a passive tick credit
\* (1 + 0.02 * p) times the gold the same job counts, rates and artifacts credit with
\* 0 points.
C21_PrestigeBonusIsTwoPercentPerPoint ==
  [][ /\ IsCall("click") =>
           gameState'.gold - gameState.gold
             = FMul(ClickCreditWithoutPoints(gameState),
                    Scale + 20 * gameState.prestigePoints)
      /\ IsCall("idle") =>
           gameState'.gold - gameState.gold
             = FMul(TickCreditWithoutPoints(gameState),
                    Scale + 20 * gameState.prestigePoints) ]_vars

(***************************************************************************)
(* Saving with failing stores: every caller of saveGame, with each write   *)
(* succeeding or throwing (quota exceeded, storage disabled).              *)
(***************************************************************************)
\* What saveGame() returns: true at the end of the try block, false from the catch.
saveGameReturns_IgnoresBackup(outcome) == outcome # "primaryThrows"

saveGameReturns(outcome) == outcome = "ok"

\* The 'Force Save Game' button: saveGame(), then an alert that tells its result.
ManualSave(outcome) ==
  /\ Tick
  /\ saveGame(gameState, outcome)
  /\ lastCall' = Called("manualSave", outcome, Qty(0),
                        IF saveGameReturns(outcome) THEN "saved" ELSE "failed", 0, 0)
  /\ UNCHANGED call

NextSave ==
  \/ ClickButton
  \/ \E outcome \in SaveOutcomes : HandleCoinClick(outcome)
  \/ \E jobType \in JobTypes, outcome \in SaveOutcomes : BuyJob(jobType, Qty(1), outcome)
  \/ \E outcome \in SaveOutcomes : AutoSave(outcome)
  \/ \E outcome \in SaveOutcomes : ManualSave(outcome)

SpecSave == Init /\ [][NextSave]_vars

\* C22: saveGame always returns: false when a write to a store throws, leaving every
\* gameplay field as it was (only lastSaved is set), and true only when localStorage
\* and sessionStorage both hold the payload it serialized.
C22_SaveReportsFailure ==
  [][ /\ (IsCall("saveGame") \/ IsCall("manualSave")) =>
           Gameplay(gameState') = Gameplay(gameState)
      /\ IsCall("manualSave") =>
           /\ lastCall'.outcome \in { "saved", "failed" }
           /\ lastCall'.item \in { "primaryThrows", "backupThrows" } =>
                lastCall'.outcome = "failed"
           /\ lastCall'.outcome = "saved" =>
                /\ localStorage' = <<gameState'>>
                /\ sessionStorage' = localStorage' ]_vars

C22_Witness ==
  /\ lastCall.op = "manualSave"
  /\ lastCall.item = "backupThrows"
  /\ lastCall.outcome = "failed"
  /\ localStorage = <<gameState>>
  /\ sessionStorage # localStorage

\* jobType.replace('s', '') + 'Jobs': replace removes the first 's' of the string.
JobsFieldByReplace ==
  [ miners |-> "minerJobs", soldiers |-> "oldiersJobs", wizards |-> "wizardJobs" ]

\* The quantity updateUI prices for a button: 1 for the 'max' button.
ShownQuantity(quantity) == IF IsMax(quantity) THEN Qty(1) ELSE quantity

\* button.disabled of a '.job-button'. A field gameState does not have reads undefined:
\* Math.pow(undefined + i, e) is NaN, the bulk cost is NaN, and gold < NaN is false.
JobButtonDisabled(gs, jobType, quantity) ==
  LET field == JobsFieldByReplace[jobType]
  IN  IF field \in DOMAIN gs
        THEN gs.gold < ToFix(calculateBulkCost(gs, jobType, gs[field],
                                               ShownQuantity(quantity)))
        ELSE FALSE

\* button.disabled of an '.upgrade-button'.
UpgradeButtonDisabled(gs, upgradeId, quantity) ==
  gs.gold < ToFix(calculateBulkCost(gs, upgradeId, gs.upgrades[upgradeId].level,
                                    ShownQuantity(quantity)))

\* updateUI(): the disabled flag of every purchase button (the texts it writes are not
\* modelled).
updateUI(gs) ==
  [ fn |-> "updateUI", pc |-> "done",
    jobButtonDisabled |->
      [ jobType \in JobTypes |->
          [ quantity \in Quantities |-> JobButtonDisabled(gs, jobType, quantity) ] ],
    upgradeButtonDisabled |->
      [ upgradeId \in UpgradeIds |->
          [ quantity \in Quantities |-> UpgradeButtonDisabled(gs, upgradeId, quantity) ] ] ]

(***************************************************************************)
(* Sessions: the page is loaded, initGame restores the saved game from the *)
(* two stores, the game is played, and the page is reloaded, by the        *)
(* browser or by the reset button.                                         *)
(***************************************************************************)
\* A stored string is one of: the empty string, a text JSON.parse rejects, the JSON text
\* null, or the JSON text of an object, which is written as the object it decodes to.
EmptyText == [ text |-> "" ]
Unparseable == [ text |-> "{gold:" ]
NullText == [ text |-> "null" ]

\* The value null of loadedState.
JsonNull == [ null |-> TRUE ]

IsText(t) == "text" \in DOMAIN t

\* JSON.parse(t): throws on a text that is not JSON; the literal decodes to null.
JSONparse(t) ==
  IF IsText(t)
    THEN IF t.text = "null" THEN [ threw |-> FALSE, value |-> JsonNull ]
                            ELSE [ threw |-> TRUE, value |-> JsonNull ]
    ELSE [ threw |-> FALSE, value |-> t ]

\* One try block of loadGame: getItem, JSON.parse when the string is truthy; loadedState
\* stays null when the entry is absent or empty and when JSON.parse throws.
ReadStore(store) ==
  IF store = <<>> THEN JsonNull
  ELSE IF store[1] = EmptyText THEN JsonNull
  ELSE LET parsed == JSONparse(store[1])
       IN  IF parsed.threw THEN JsonNull ELSE parsed.value

\* typeof loadedState[field] === 'number'. A member that is not a number is modelled by
\* a payload without that member (typeof undefined).
IsNumber(loadedState, field) == field \in DOMAIN loadedState

\* { ...gs, ...loadedState }: the own properties of gs, then those of loadedState.
Merge_DefaultsWin(gs, loadedState) ==
  [ k \in DOMAIN gs \cup DOMAIN loadedState |->
      IF k \in DOMAIN gs THEN gs[k] ELSE loadedState[k] ]

Merge(gs, loadedState) ==
  [ k \in DOMAIN gs \cup DOMAIN loadedState |->
      IF k \in DOMAIN loadedState THEN loadedState[k] ELSE gs[k] ]

\* if (!loadedState): the backup is read when the first try block left null or decoded
\* a falsy value.
NeedsBackup_OnlyWhenAbsent(primary, fromPrimary) == primary = <<>>

NeedsBackup(primary, fromPrimary) == fromPrimary = JsonNull

Valid_GoldOnly(loadedState) == IsNumber(loadedState, "gold")

Valid(loadedState) ==
  IsNumber(loadedState, "gold") /\ IsNumber(loadedState, "prestigePoints")

\* loadGame(): the state it leaves, whether it read the backup, the store its payload
\* came from, and what it did with the payload.
loadGame(gs, primary, backup) ==
  LET fromPrimary == ReadStore(primary)
      readBackup == NeedsBackup(primary, fromPrimary)
      loadedState == IF readBackup THEN ReadStore(backup) ELSE fromPrimary
      source == IF loadedState = JsonNull THEN "none"
                ELSE IF readBackup THEN "backup" ELSE "primary"
  IN  IF loadedState = JsonNull
        THEN [ state |-> gs, readBackup |-> readBackup, source |-> source,
               outcome |-> "nothing" ]
      ELSE IF ~Valid(loadedState)
        THEN [ state |-> gs, readBackup |-> readBackup, source |-> source,
               outcome |-> "corrupt" ]
      ELSE [ state |-> Merge(gs, loadedState), readBackup |-> readBackup,
             source |-> source, outcome |-> "loaded" ]

\* The object the reset button assigns to gameState.
ResetState(gs) ==
  [ DefaultGameState EXCEPT !.prestigePoints = gs.prestigePoints,
                            !.prestigeBonusMultiplier = gs.prestigeBonusMultiplier ]

\* Where the page is: the script has been evaluated and initGame not yet run; loadGame
\* has returned; the game runs (NoCall); location.reload() has been called.
Page(pc) == Frame("initGame", "", 0, Qty(0), pc, 0, 0, 0, 0, 0)
Running == call = NoCall

\* The entries a session can find in a store.
Without(p, field) == [ k \in DOMAIN p \ { field } |-> p[k] ]
SaveA == [ buyJob(Earn(DefaultGameState, 12), "miners", Qty(1)).state EXCEPT !.lastSaved = 1 ]
SaveB == [ Earn(AfterPrestiges(2), 3) EXCEPT !.lastSaved = 2 ]
\* A game without prestige that bought a miner, a pickaxe level and a second miner.
SaveC ==
  LET first == buyJob(Earn(DefaultGameState, 80), "miners", Qty(1)).state
      sharper == buyUpgrade(first, "miner-sharp-pickaxe", Qty(1)).state
  IN  [ buyJob(sharper, "miners", Qty(1)).state EXCEPT !.lastSaved = 3 ]
NoGold == Without(SaveA, "gold")
NoPrestigePoints == Without(SaveB, "prestigePoints")
OlderSave ==
  [ Without(SaveA, "useScientificNotation") EXCEPT
      !.artifactEffects = Without(@, "startingResources") ]

StoredEntries ==
  { <<>>, <<EmptyText>>, <<Unparseable>>, <<NullText>>, <<NoGold>>, <<NoPrestigePoints>>,
    <<OlderSave>>, <<SaveA>>, <<SaveB>>, <<SaveC>> }

InitSession ==
  /\ gameState = DefaultGameState
  /\ localStorage \in StoredEntries
  /\ sessionStorage \in StoredEntries
  /\ now = 0
  /\ lastCall = Called("none", "", Qty(0), "", 0, 0)
  /\ call = Page("script")

\* initGame() up to the return of loadGame(): the assignments of lines 1911-1915 write
\* the values the fresh gameState already has. When loadGame adopts a payload it calls
\* updateUI() on the merged state (line 561); ui holds what that call computed.
LoadGame ==
  /\ call = Page("script")
  /\ LET r == loadGame(gameState, localStorage, sessionStorage)
     IN  /\ gameState' = r.state
         /\ lastCall' = [ op |-> "loadGame", readBackup |-> r.readBackup,
                          source |-> r.source, outcome |-> r.outcome,
                          ui |-> IF r.outcome = "loaded" THEN <<updateUI(r.state)>>
                                 ELSE <<>> ]
  /\ call' = Page("loaded")
  /\ UNCHANGED <<localStorage, sessionStorage, now>>

\* The rest of initGame(): applyArtifactEffects() when an artifact is unlocked.
InitGameFinish ==
  /\ call = Page("loaded")
  /\ gameState' = IF Len(gameState.artifacts.unlockedIds) > 0
                    THEN applyArtifactEffects(gameState)
                    ELSE gameState
  /\ lastCall' = [ op |-> "initGame",
                    appliedArtifacts |-> Len(gameState.artifacts.unlockedIds) > 0 ]
  /\ call' = NoCall
  /\ UNCHANGED <<localStorage, sessionStorage, now>>

\* The reset button: localStorage.clear(), the new gameState, location.reload().
ResetButton ==
  /\ Running
  /\ Tick
  /\ gameState' = ResetState(gameState)
  /\ localStorage' = <<>>
  /\ lastCall' = [ op |-> "reset" ]
  /\ call' = Page("reload")
  /\ UNCHANGED sessionStorage

\* The page is unloaded and loaded again, after location.reload() or by the user. Where
\* the browser fires visibilitychange on unload the listener of line 1168 saves first.
\* The new page starts from the gameState literal; both stores outlive the page.
Reload(saves) ==
  /\ Running \/ call = Page("reload")
  /\ Tick
  /\ LET payload == [ gameState EXCEPT !.lastSaved = now' ]
     IN  /\ localStorage' = IF saves THEN <<payload>> ELSE localStorage
         /\ sessionStorage' = IF saves THEN <<payload>> ELSE sessionStorage
  /\ gameState' = DefaultGameState
  /\ lastCall' = [ op |-> "reload", saved |-> saves, afterReset |-> call = Page("reload") ]
  /\ call' = Page("script")

NextSession ==
  \/ LoadGame
  \/ InitGameFinish
  \/ Running /\ ClickButton
  \/ Running /\ BuyJob("miners", Qty(1), "ok")
  \/ Running /\ AutoSave("ok")
  \/ ResetButton
  \/ \E saves \in BOOLEAN : Reload(saves)

SpecSession == InitSession /\ [][NextSession]_vars

(***************************************************************************)
(* Properties of loading (checked under SpecSession).                      *)
(***************************************************************************)
LoadStep == call = Page("script") /\ call' = Page("loaded")
ReloadStep == call # Page("script") /\ call' = Page("script")

Absent(store) == store = <<>>
ParseFails(store) == store # <<>> /\ JSONparse(store[1]).threw
DecodesToNull(store) ==
  store # <<>> /\ ~JSONparse(store[1]).threw /\ JSONparse(store[1]).value = JsonNull
HoldsObject(store) == ~Absent(store) /\ ~ParseFails(store) /\ ~DecodesToNull(store)

\* The payload loadGame decodes: the primary one, else the backup one, else null.
DecodedPayload ==
  IF HoldsObject(localStorage) THEN localStorage[1]
  ELSE IF HoldsObject(sessionStorage) THEN sessionStorage[1]
  ELSE JsonNull

\* C23 as claimed: loadGame reads the backup store only when the primary entry is absent
\* or fails to parse, and then loads a valid backup payload.
C23_BackupOnlyWhenPrimaryUnreadable ==
  [][ LoadStep =>
        /\ lastCall'.readBackup => Absent(localStorage) \/ ParseFails(localStorage)
        /\ ( /\ Absent(localStorage) \/ ParseFails(localStorage)
             /\ HoldsObject(sessionStorage)
             /\ Valid(sessionStorage[1]) ) =>
               /\ lastCall'.source = "backup"
               /\ gameState' = Merge(gameState, sessionStorage[1]) ]_vars

\* C23 amended: loadGame decodes the primary entry first and reads the backup store
\* exactly when the primary entry is absent, fails to parse, or decodes to a falsy
\* value (the JSON text null); a valid backup payload read this way is the one loaded,
\* and a primary entry that holds an object is never replaced by the backup.
C23_BackupWhenPrimaryYieldsNothing ==
  [][ LoadStep =>
        /\ lastCall'.readBackup <=>
             Absent(localStorage) \/ ParseFails(localStorage) \/ DecodesToNull(localStorage)
        /\ (lastCall'.readBackup /\ HoldsObject(sessionStorage)
              /\ Valid(sessionStorage[1])) =>
             /\ lastCall'.source = "backup"
             /\ gameState' = Merge(gameState, sessionStorage[1])
        /\ HoldsObject(localStorage) => lastCall'.source = "primary" ]_vars

C23_Witness ==
  /\ lastCall.op = "loadGame"
  /\ lastCall.source = "backup"
  /\ lastCall.outcome = "loaded"
  /\ localStorage = <<Unparseable>>
  /\ sessionStorage = <<SaveB>>
  /\ gameState = SaveB

\* C24: when gold or prestigePoints of the decoded payload is not a number, loadGame
\* leaves every field of gameState as it was.
C24_CorruptPayloadIsDiscarded ==
  [][ ( /\ LoadStep
        /\ DecodedPayload # JsonNull
        /\ ~IsNumber(DecodedPayload, "gold") \/ ~IsNumber(DecodedPayload, "prestigePoints") )
      => /\ gameState' = gameState
         /\ lastCall'.outcome = "corrupt" ]_vars

C24_Witness ==
  /\ lastCall.op = "loadGame"
  /\ lastCall.outcome = "corrupt"
  /\ localStorage = <<NoPrestigePoints>>
  /\ gameState = DefaultGameState

\* The merge of a save over the defaults, entry by entry inside upgrades and
\* artifactEffects.
MergeWithNestedDefaults(gs, loadedState) ==
  [ k \in DOMAIN gs \cup DOMAIN loadedState |->
      IF k \notin DOMAIN loadedState THEN gs[k]
      ELSE IF k \in { "upgrades", "artifactEffects" } /\ k \in DOMAIN gs
        THEN [ n \in DOMAIN gs[k] \cup DOMAIN loadedState[k] |->
                 IF n \in DOMAIN loadedState[k] THEN loadedState[k][n] ELSE gs[k][n] ]
        ELSE loadedState[k] ]

\* C25 as claimed: after a successful load every field of the save has the saved value
\* and every field the save lacks keeps its default, also inside nested records.
C25_AbsentFieldsKeepDefaults ==
  [][ (LoadStep /\ lastCall'.outcome = "loaded") =>
        gameState' = MergeWithNestedDefaults(gameState, DecodedPayload) ]_vars

UnknownIds == { "farmers", "wizard-golden-staff" }

NextUnknown ==
  \/ \E type \in UnknownIds, owned \in { 0, MaxOwned } : CallNextCost(type, owned)
  \/ \E type \in UnknownIds, owned \in { 0, MaxOwned }, n \in { 1, MaxQty } :
       CallBulkCost(type, owned, n)
  \/ \E jobType \in UnknownIds, quantity \in Quantities : BuyJob(jobType, quantity, "ok")
  \/ \E upgradeId \in UnknownIds, quantity \in Quantities :
       BuyUpgrade(upgradeId, quantity, "ok")

SpecUnknown == InitCost /\ [][NextUnknown]_vars

\* C27 as claimed: for an identifier that is neither a configured job nor a configured
\* upgrade, a purchase reports an error and changes no state, and a cost computation
\* changes no state and never yields the cost 0.
C27_UnknownIdentifierIsAnError ==
  [][ /\ (IsCall("buyJob") \/ IsCall("buyUpgrade")) /\ lastCall'.item \notin ItemTypes =>
           /\ lastCall'.outcome = "invalid"
           /\ UNCHANGED <<gameState, localStorage, sessionStorage>>
      /\ (call.fn = "none" /\ call'.fn # "none" /\ call'.type \notin ItemTypes) =>
           /\ call'.result # 0
           /\ UNCHANGED <<gameState, localStorage, sessionStorage>> ]_vars

(***************************************************************************)
(* Properties of the reset button (checked under SpecSession).             *)
(***************************************************************************)
\* C28 as claimed: the reset button leaves the in-memory state at its defaults, and the
\* loadGame of the session that follows restores no progress made before the reset.
C28_ResetDiscardsProgress ==
  [][ /\ (Running /\ call' = Page("reload")) =>
           Gameplay(gameState') = Gameplay(DefaultGameState)
      /\ (LoadStep /\ lastCall.op = "reload" /\ lastCall.afterReset) =>
           Gameplay(gameState') = Gameplay(DefaultGameState) ]_vars

(***************************************************************************)
(* Properties of the per-unit rates (checked under Spec).                  *)
(***************************************************************************)
\* The upgrade that targets a job, and the per-unit factor the unlocked artifacts give it.
UpgradeOf == [ miners |-> "miner-sharp-pickaxe", soldiers |-> "soldier-stronger-swords",
               wizards |-> "wizard-better-focus" ]
BaseRate(jobType) ==
  IF jobType = "wizards" THEN balanceData.jobs[jobType].goldPerClick
  ELSE balanceData.jobs[jobType].goldPerSecond
ArtifactRateFactor(gs, jobType) ==
  LET ids == { gs.artifacts.unlockedIds[i] : i \in DOMAIN gs.artifacts.unlockedIds }
  IN  IF jobType = "miners" /\ "mystic-pickaxe" \in ids THEN 1350
      ELSE IF jobType = "soldiers" /\ "heroes-medallion" \in ids THEN 1400
      ELSE IF jobType = "wizards" /\ "ancient-scroll" \in ids THEN 1350
      ELSE Scale
DerivedRate(gs, jobType) ==
  FMul(FMul(BaseRate(jobType), ArtifactRateFactor(gs, jobType)),
       EffectPow(balanceData.upgrades[UpgradeOf[jobType]].effectMultiplier,
                 gs.upgrades[UpgradeOf[jobType]].level))

\* C29 as claimed: every per-unit rate is its base rate times (1 + effectMultiplier) to
\* the level of the job's upgrade times the factor of the unlocked artifacts, and buying
\* units of a job changes no per-unit rate. The derived value is compared up to level 1,
\* where the product in thousandths is exact.
C29_RatesDerivedFromLevelsAndArtifacts ==
  [][ /\ IsCall("buyJob") =>
           \A jobType \in JobTypes :
             gameState'[RateField[jobType]] = gameState[RateField[jobType]]
      /\ \A jobType \in JobTypes :
           gameState'.upgrades[UpgradeOf[jobType]].level <= 1 =>
             gameState'[RateField[jobType]] = DerivedRate(gameState', jobType) ]_vars

(***************************************************************************)
(* Properties of the 'max' purchase (checked under Spec).                  *)
(***************************************************************************)
\* The owned count a purchase of the item starts from.
OwnedOf(gs, item) ==
  IF item \in JobTypes THEN gs[JobsField[item]] ELSE gs.upgrades[item].level

\* C30: a 'max' purchase of a job or an upgrade adds the largest number of units whose
\* single-purchase prices, taken in order from the owned count before the purchase, the
\* balance covers, and deducts exactly the sum of those prices.
C30_MaxPurchasePaysForWhatItAdds ==
  [][ ( /\ IsCall("buyJob") \/ IsCall("buyUpgrade")
        /\ IsMax(lastCall'.quantity) ) =>
        LET item == lastCall'.item
            owned == OwnedOf(gameState, item)
            added == OwnedOf(gameState', item) - owned
        IN  /\ added >= 0
            /\ gameState.gold - gameState'.gold
                 = ToFix(SumOfNextCosts(gameState, item, owned, added))
            /\ ToFix(SumOfNextCosts(gameState, item, owned, added)) <= gameState.gold
            /\ ToFix(SumOfNextCosts(gameState, item, owned, added + 1)) > gameState.gold
            /\ lastCall'.numToBuy = added
            /\ lastCall'.totalCost = SumOfNextCosts(gameState, item, owned, added) ]_vars

C30_Witness ==
  /\ lastCall.op = "buyUpgrade"
  /\ IsMax(lastCall.quantity)
  /\ lastCall.outcome = "bought"
  /\ lastCall.numToBuy >= 2
  /\ gameState.upgrades[lastCall.item].level >= 2

(***************************************************************************)
(* Properties of the upgrade price (checked under SpecCost).               *)
(***************************************************************************)
UnmodifiedUpgradeCost(upgradeId, level) ==
  LET data == balanceData.upgrades[upgradeId]
  IN  data.baseCost
        + (data.baseCost * data.costIncreaseRate * MathPow(level, data.costExponent))
            \div (100 * PowScale)

\* C31 as claimed: the cost of an upgrade level is computed like a job's unit cost:
\* floor(baseCost * (1 + costIncreaseRate * level^costExponent)), multiplied by
\* (1 - the cost reduction) and floored again.
C31_UpgradeCostIsReduced ==
  (call.fn = "calculateNextCost" /\ call.type \in UpgradeIds) =>
    call.result = (UnmodifiedUpgradeCost(call.type, call.owned)
                     * (Scale - gameState.artifactEffects.jobCostReduction)) \div Scale

\* C31 amended: the cost of an upgrade level is
\* floor(baseCost * (1 + costIncreaseRate * level^costExponent)) with the upgrade's own
\* configuration, the growth formula of a job's unit cost; the artifact cost reduction,
\* which lowers job costs, is not applied to it.
C31_UpgradeCostIsNotReduced ==
  (call.fn = "calculateNextCost" /\ call.type \in UpgradeIds) =>
    /\ call.result = UnmodifiedUpgradeCost(call.type, call.owned)
    /\ (call.type = "miner-sharp-pickaxe" /\ call.owned = 0) => call.result = 50

\* C31 witness: the price of a second pickaxe level while the 15% reduction is active.
C31_Witness ==
  /\ call.fn = "calculateNextCost"
  /\ call.type = "miner-sharp-pickaxe"
  /\ call.owned = 1
  /\ gameState.artifactEffects.jobCostReduction = 150
  /\ call.result = 62

(***************************************************************************)
(* Properties of the session start (checked under SpecSession).            *)
(***************************************************************************)
\* initGame returns after a loadGame that adopted a payload.
StartedFromSave == call = Page("loaded") /\ call' = NoCall /\ lastCall.outcome = "loaded"

\* C32 as claimed: after a session start that loads a save, goldPerClick and goldPerSec
\* equal the values recomputed from the loaded job counts, per-unit rates, prestige
\* multiplier and artifact multipliers.
C32_YieldsRecomputedOnLoad ==
  [][ StartedFromSave =>
        /\ gameState'.goldPerClick = YieldPerClick(gameState')
        /\ gameState'.goldPerSec = YieldPerSec(gameState') ]_vars

(***************************************************************************)
(* The purchase buttons: updateUI(), which every handler calls once it has *)
(* changed gameState, applied to games with jobs and upgrades.             *)
(***************************************************************************)
CallUpdateUI ==
  /\ call # updateUI(gameState)
  /\ call' = updateUI(gameState)
  /\ UNCHANGED <<gameState, localStorage, sessionStorage, now, lastCall>>

NextUI ==
  \/ ClickButton
  \/ IdleIncome
  \/ \E jobType \in JobTypes : BuyJob(jobType, Qty(1), "ok")
  \/ \E upgradeId \in UpgradeIds : BuyUpgrade(upgradeId, Qty(1), "ok")
  \/ CallUpdateUI

SpecUI == Init /\ [][NextUI]_vars

\* C38 as claimed: after updateUI a job button is disabled exactly when gold is less
\* than the cost of its quantity (of one unit for the 'max' button), for miners,
\* soldiers and wizards.
C38_JobButtonDisabledIffUnaffordable ==
  [][ (call'.fn = "updateUI" /\ call' # call) =>
        \A jobType \in JobTypes, quantity \in Quantities :
          call'.jobButtonDisabled[jobType][quantity]
            <=> gameState.gold
                  < ToFix(calculateBulkCost(gameState, jobType,
                                            gameState[JobsField[jobType]],
                                            ShownQuantity(quantity))) ]_vars

\* C33 as claimed: between a load that adopted a payload and the first cost or yield
\* computation after it, applyArtifactEffects has recomputed the accumulator from the
\* loaded unlocked set: loadGame itself computes no cost, and when initGame returns the
\* accumulator is the recomputed one.
C33_ArtifactsAppliedBeforeCosts ==
  [][ /\ (LoadStep /\ lastCall'.outcome = "loaded") => lastCall'.ui = <<>>
      /\ StartedFromSave =>
           gameState'.artifactEffects
             = AccumulatorOf(IdSet(gameState'.artifacts.unlockedIds)) ]_vars

(***************************************************************************)
(* Invariants of the balances and counts (checked under Spec).             *)
(***************************************************************************)
\* C34: in every state reached through clicks, ticks, purchases and prestiges, gold is
\* not negative and every job count and every upgrade level is a natural number.
C34_BalancesAndCountsNonNegative ==
  /\ gameState.gold >= 0
  /\ \A jobType \in JobTypes : gameState[JobsField[jobType]] \in Nat
  /\ \A upgradeId \in UpgradeIds : gameState.upgrades[upgradeId].level \in Nat

\* C34 witness: two upgrade purchases have spent the balance to the last coin.
C34_Witness ==
  /\ lastCall.op = "buyUpgrade"
  /\ lastCall.outcome = "bought"
  /\ lastCall.numToBuy > 0
  /\ gameState.gold = 0
  /\ gameState.lifetimeGold > 0

(***************************************************************************)
(* Properties of lifetimeGold (checked under SpecPrestige).                *)
(***************************************************************************)
\* C35: lifetimeGold decreases only when a successful prestige sets it to 0: a click and
\* a tick add to it the non-negative amount they add to gold, and a purchase, bought or
\* refused, leaves it unchanged.
C35_LifetimeGoldOnlyResetByPrestige ==
  [][ /\ (IsCall("click") \/ IsCall("idle")) =>
           /\ gameState'.lifetimeGold - gameState.lifetimeGold
                = gameState'.gold - gameState.gold
           /\ gameState'.lifetimeGold >= gameState.lifetimeGold
      /\ (IsCall("buyJob") \/ IsCall("buyUpgrade")) =>
           gameState'.lifetimeGold = gameState.lifetimeGold
      /\ IsCall("prestigeGame") =>
           gameState'.lifetimeGold
             = IF lastCall'.outcome = "prestiged" THEN 0 ELSE gameState.lifetimeGold
      /\ gameState'.lifetimeGold < gameState.lifetimeGold =>
           IsCall("prestigeGame") /\ lastCall'.outcome = "prestiged" ]_vars

\* C35 witness: a purchase in a later prestige cycle, paid from gold while lifetimeGold
\* keeps what the cycle has earned.
C35_Witness ==
  /\ lastCall.op = "buyJob"
  /\ lastCall.outcome = "bought"
  /\ gameState.totalPrestiges >= 1
  /\ gameState.lifetimeGold > gameState.gold
  /\ gameState.gold > 0

\* C36 as claimed: a session start from a save (loadGame, then initGame's
\* applyArtifactEffects) leaves minerJobGPS, soldierJobGPS and wizardJobGPC at their
\* saved values.
C36_RestartKeepsPerUnitRates ==
  [][ StartedFromSave =>
        \A jobType \in JobTypes :
          gameState'[RateField[jobType]] = gameState[RateField[jobType]] ]_vars

(***************************************************************************)
(* One press of the gold button, dispatched to every listener registered   *)
(* on it: the click listener of line 887 and, once DOMContentLoaded has    *)
(* found .click-area and #click-button, the touchstart and click listeners *)
(* of lines 2099-2113.                                                     *)
(***************************************************************************)
\* A press is a mouse click, or a tap: touchstart, then the click the browser
\* synthesizes, a PointerEvent with pointerType 'touch' or a MouseEvent without one;
\* on a mobile device the touchend listener of line 1196 cancels that click.
Gestures ==
  { [ touchstart |-> FALSE, click |-> TRUE, pointerType |-> "mouse" ],
    [ touchstart |-> TRUE, click |-> TRUE, pointerType |-> "touch" ],
    [ touchstart |-> TRUE, click |-> TRUE, pointerType |-> "undefined" ],
    [ touchstart |-> TRUE, click |-> FALSE, pointerType |-> "touch" ] }

\* The calls of handleCoinClick one press makes: from the touchstart listener, and from
\* the click listener of line 2106 unless the click comes from a touch.
CoinClickCalls(attached, gesture) ==
  IF attached
    THEN (IF gesture.touchstart THEN 1 ELSE 0)
           + (IF gesture.click /\ gesture.pointerType # "touch" THEN 1 ELSE 0)
    ELSE 0

RECURSIVE CreditTimes(_, _)
CreditTimes(gs, n) == IF n = 0 THEN gs ELSE CreditTimes(CreditClick(gs), n - 1)

\* The press: handleCoinClick for the touchstart, then for the click the listener of
\* line 887 and that of line 2106; each handleCoinClick ends with saveGame.
PressGoldButton(attached, gesture) ==
  /\ Tick
  /\ LET calls == CoinClickCalls(attached, gesture)
         credited == CreditTimes(gameState, (IF gesture.click THEN 1 ELSE 0) + calls)
     IN  /\ IF calls > 0
               THEN saveGame(credited, "ok")
               ELSE /\ gameState' = credited
                    /\ UNCHANGED <<localStorage, sessionStorage>>
         /\ lastCall' = [ op |-> "pressGoldButton", attached |-> attached,
                          gesture |-> gesture, handleCoinClickCalls |-> calls ]
  /\ UNCHANGED call

NextPress ==
  \/ \E attached \in BOOLEAN, gesture \in Gestures : PressGoldButton(attached, gesture)
  \/ IdleIncome
  \/ \E jobType \in JobTypes : BuyJob(jobType, Qty(1), "ok")

SpecPress == Init /\ [][NextPress]_vars

\* C37 as claimed: one press of the gold button adds goldPerClick * prestigeBonusMultiplier
\* to gold and to lifetimeGold exactly once, whichever listeners are attached.
C37_OnePressCreditsOnce ==
  [][ IsCall("pressGoldButton") =>
        LET goldGained == FMul(gameState.goldPerClick, gameState.prestigeBonusMultiplier)
        IN  /\ gameState'.gold = gameState.gold + goldGained
            /\ gameState'.lifetimeGold = gameState.lifetimeGold + goldGained ]_vars

\* The next-cost field the game state stores for an item.
StoredCost(gs, item) ==
  IF item \in JobTypes THEN gs[JobCostField[item]] ELSE gs.upgrades[item].cost

\* C39 as claimed: in every state reached through purchases and prestiges, the stored
\* next cost of every job and upgrade equals calculateNextCost for the count or level
\* owned, under the artifact cost reduction in effect.
C39_StoredCostsAreNextCosts ==
  \A item \in JobTypes \cup UpgradeIds :
    StoredCost(gameState, item) = calculateNextCost(gameState, item, OwnedOf(gameState, item))

====
